---- MODULE Spec2Model ----
(***************************************************************************)
(* Model of the libcyphal UDP transport core (TransportImpl): redundant    *)
(* media, lazily made TX/RX sockets, the per-medium libudpard TX queue,    *)
(* the TX drain and RX pump of run(now), TX session send, the local node   *)
(* id and the transient error handler.                                     *)
(*                                                                         *)
(* The transport is single-threaded: one API call runs at a time, and `pc`  *)
(* is its position.  A call starts from the idle position, goes through    *)
(* the code's loops one iteration per step, and ends with a return step;   *)
(* no other call starts in between.  What a medium's factory, a socket or  *)
(* the framer answers is chosen per step from the answers it can give.     *)
(* `ev` holds the latest thing the call did to its surroundings (a socket  *)
(* or framer call, a queue drop, a handler invocation).                    *)
(***************************************************************************)
EXTENDS Integers, Sequences, FiniteSets

\* ------------------------------------------------------------------ bounds

\* tx_capacity given to makeTransport: frames one medium's TX queue can hold.
TxCapacity == 2
\* Transfer timestamps are drawn from 0..MaxTime.
MaxTime == 1

\* ------------------------------------------------------- program constants

UDPARD_NODE_ID_UNSET == 65535
UDPARD_NODE_ID_MAX == 65534
\* std::chrono::seconds{1}, in the model's time unit.
DefaultSendTimeout == 1

\* ---------------------------------------------------------------- domains

\* The indices of media_array_: a transport built with two redundant media.
Media == {0, 1}
Times == 0 .. MaxTime
\* Every transfer stamped at time zero.
SendAtStart == {0}
\* Transfers stamped at one of two times.
TwoTimestamps == {0, 1}
\* run(now): up to the latest deadline a transfer can have.
RunTimes == 0 .. (MaxTime + DefaultSendTimeout)
\* A transfer is cut into one frame or into two (payload above the MTU).
FrameCounts == {1, 2}
\* Priorities of the transfers sent: Nominal (4) alone, or Fast (2) as well;
\* the lower number is the more urgent.
NominalOnly == {4}
FastAndNominal == {2, 4}
\* Single-frame transfers alone.
SingleFrame == {1}
\* Values given to setSendTimeout: none at all, and twice the default.
SendTimeouts == {0, 2}
NodeIdInputs == {7, UDPARD_NODE_ID_UNSET}
\* Two node ids in range, and the unset one.
TwoNodeIds == {7, 8, UDPARD_NODE_ID_UNSET}
\* The kinds of RX session, one session tree each.
Kinds == {"Message", "Request", "Response"}
\* Port ids asked for: two in range for every kind, one above every kind's maximum.
PortIds == {5, 6, 9000}

None == "none"
\* What a medium's socket factory can answer: a socket, a null socket pointer
\* inside a success result, or a failure.
MakeSocketResults == {"socket", "null", "PlatformError"}
\* ITxSocket::send: Success{is_accepted}, or Failure.
SendResults == {"accepted", "not_accepted", "PlatformError"}
\* IRxSocket::receive: nullopt, a datagram, or Failure.
ReceiveResults == {"nothing", "datagram", "PlatformError"}
\* udpardRxRPCDispatcherReceive: negative (error), 0 (no transfer yet), 1 (completed).
DispatcherResults == {"MemoryError", "incomplete", "completed"}
\* Handlers the application may install ("unset": none installed).
Handlers == {"unset", "swallow", "escalate"}

\* A TX queue item: `rest` is the number of items chained after it by
\* next_in_transfer (the frames of its transfer still to follow).
NoItem == [rest |-> 0, deadline |-> 0, prio |-> 0]
\* The longest span of media given to make.
MaxSpan == 4
\* The protocol's maximum number of redundant interfaces.
UDPARD_NETWORK_INTERFACE_COUNT_MAX == 3
\* IMedia pointers: nullptr and two interfaces.
nullptr == 0
MediaPointers == {nullptr, 1, 2}
\* The allocation of make that fails: none, the media array's, the transport's.
MemoryOutcomes == {"ok", "media_array", "transport"}
\* No transport, and the answer of a factory not called yet.
NoTransport == [exists |-> FALSE, media_array_ |-> <<>>, node_id_ |-> 0]
NotCalled == [failure |-> "not called", transport |-> NoTransport]

\* The most requests a registry provider is given.
MaxRequests == 2
\* The provider's response timeout when none has been set.
DefaultResponseTimeout == 1
\* Values given to setResponseTimeout: none at all, and twice the default.
ResponseTimeouts == {0, 2}
\* setResponseTimeout has not been called.
NoTimeout == -1
\* Transfer ids, priorities (Fast, Nominal) and client node ids of requests.
TransferIds == {123, 124}
RequestPriorities == {2, 4}
ClientNodeIds == {49, 50}

\* The extent of the service RX session, in payload bytes.
Extent == 3
\* What arrives for the session: a transfer in two frames (three payload bytes
\* or four), and after it, in some runs, a transfer in one frame.
WireTransferIds == {29, 30}
WirePriorities == {0, 3}
WireNodeIds == {19, 20}
FirstPayload == <<1, 2>>
FinalPayloads == {<<3>>, <<3, 4>>}
\* The out_transfer of a dispatcher call that completed nothing.
BlankTransfer == [transfer_id |-> 0, priority |-> 0, remote_node_id |-> 0, payload |-> <<>>]

\* The latest reading of the executor's clock.
MaxNow == 2
\* NodeID::Max, the highest unicast node id (127 in the program).
Max == 5
\* The ids appendCallback hands out, in registration order.
CallbackIds == {1, 2}
\* A periodic callback re-arms itself this long after `now`.
Period == 1
\* The time of a callback that is not armed.
Unarmed == -1
\* Times given to scheduleCallbackByIdAt.
ScheduleTimes == 0 .. MaxNow
\* What a callback function does when run: nothing, one schedule or one removal.
Bodies == [op : {"none"}, id : {0}, time : {0}]
          \cup [op : {"schedule"}, id : CallbackIds, time : ScheduleTimes]
          \cup [op : {"remove"}, id : CallbackIds, time : {0}]

\* An RX session is known by its kind and port id.
NoSession == [kind |-> "none", port |-> 0]

VARIABLES
    node_id_,                   \* TransportDelegate::node_id()
    svc_rx_sockets_endpoint_,   \* optional endpoint: {} or {endpoint}
    transient_error_handler_,   \* installed handler, "unset" when empty
    tx_socket_ptr_,             \* medium -> TX socket exists
    rx_socket_ptr_,             \* medium -> RX socket exists
    udpard_tx_,                 \* medium -> TX queue, head first
    tx_session_,                \* a TX session has been made
    send_timeout_,              \* the TX session's send timeout
    msg_rx_session_nodes_,          \* port ids of the nodes of the message RX tree
    svc_request_rx_session_nodes_,  \* ... of the request RX tree
    svc_response_rx_session_nodes_, \* ... of the response RX tree
    rx_sessions,                \* session (kind, port) -> number of live RX session
                                \* objects the application holds for it
    pc,                         \* position of the API call in progress
    ev,                         \* the latest event of the call in progress
    blocked,                    \* medium -> item whose send was not accepted when
                                \* the medium was last drained (NoItem otherwise)
    rx_socket_asked,            \* medium -> makeRxSocket has been called for it
    media_interfaces,           \* the span of media given to make (0: nullptr)
    memory,                     \* which allocation of make fails, if any
    made,                       \* what make has returned
    response_timeout_,          \* the registry provider's response timeout
    last_timeout,               \* the last value given to setResponseTimeout
    requests,                   \* the requests the provider's callback has received
    responses,                  \* the responses handed to the response TX session
    wire,                       \* frames of service transfers still to arrive
    arrived,                    \* the frames the RX socket has yielded so far
    rx_port,                    \* the framer port's payload reassembled so far
    last_rx_transfer_,          \* optional: the transfer the RX session holds
    accepted,                   \* the transfers handed to acceptRxTransfer
    delivered,                  \* the transfers the session's receive has returned
    callbacks,                  \* callback id -> the executor's node for it
    now_,                       \* the executor's clock
    spinning,                   \* spin_once is in progress
    ran,                        \* the callbacks run by the spin_once in progress or last
    armed_this_spin,            \* ids given to schedule during that spin_once
    api,                        \* the latest call of the executor's interface
    selector,                   \* a call of NodeIDSelector::findFreeNodeID
    registers,                  \* register object -> its name, value and life
    registers_tree_,            \* key -> the register linked under it (nullptr: none)
    registry_call,              \* the latest call on the registry or a register
    handles,                    \* handle object -> its id_ and executor_, if it exists
    removals                    \* callback id -> calls of removeCallbackById made for it
                                \* by handles

sessions == <<msg_rx_session_nodes_, svc_request_rx_session_nodes_,
              svc_response_rx_session_nodes_, rx_sessions>>
transport == <<node_id_, svc_rx_sockets_endpoint_, transient_error_handler_, tx_socket_ptr_,
               rx_socket_ptr_, udpard_tx_, tx_session_, send_timeout_, sessions>>
\* The transport with the call in progress on it.
udp == <<transport, pc, ev, blocked, rx_socket_asked>>
\* The factory call.
factory == <<media_interfaces, memory, made>>
\* The registry provider over its request RX and response TX sessions.
provider == <<response_timeout_, last_timeout, requests, responses>>
\* One service RX session fed by the RX pump.
reassembly == <<wire, arrived, rx_port, last_rx_transfer_, accepted, delivered>>
\* The executor.
executor == <<callbacks, now_, spinning, ran, armed_this_spin, api>>
\* The state of what is modelled apart from one transport.
\* What is modelled of the rest of the library.
\* The registry with the registers the application holds.
registry == <<registers, registers_tree_, registry_call>>
\* The handles the application holds for its callbacks.
ownership == <<handles, removals>>
library == <<selector, registry, ownership>>
others == <<factory, provider, reassembly, executor, library>>
vars == <<transport, pc, ev, blocked, rx_socket_asked, others>>

\* One event of a call.
Ev(kind, m, item, res) ==
    [ev |-> kind, m |-> m, item |-> item, res |-> res, session |-> NoSession,
     timestamp |-> 0]

\* --------------------------------------------------------------- framer

\* Frames of the queue in transmission order: by priority, FIFO within one priority.
txPush(q, frames) ==
    LET p == frames[1].prio
        ahead == SelectSeq(q, LAMBDA it : it.prio <= p)
        behind == SelectSeq(q, LAMBDA it : it.prio > p)
    IN  ahead \o frames \o behind

\* The frames of one transfer, chained by next_in_transfer.
txFrames(n, deadline, prio) ==
    [i \in 1 .. n |-> [rest |-> n - i, deadline |-> deadline, prio |-> prio]]

\* Pops the head item and, for a whole transfer, every item chained after it.
popAndFreeUdpardTxItem(q, whole_transfer) ==
    IF whole_transfer
    THEN SubSeq(q, 2 + Head(q).rest, Len(q))
    ELSE Tail(q)

\* udpardTxPublish / Request / Respond on one medium's queue: the answers it can give.
txPushResults(q, n) ==
    IF Len(q) + n > TxCapacity THEN {"CapacityError"} ELSE {"ok", "MemoryError"}

\* --------------------------------------------------------- session trees

\* SessionTree::ensureNewNodeFor on a tree holding the nodes `nodes`.
ensureNewNodeForResults(nodes, port_id) ==
    IF port_id \in nodes THEN {"AlreadyExistsError"} ELSE {"node", "MemoryError"}

\* SessionTree::removeNodeFor.
removeNodeFor(nodes, port_id) == nodes \ {port_id}

\* The highest port id of a kind: subject ids for messages, service ids otherwise.
portIdMax(kind) == IF kind = "Message" THEN 8191 ELSE 511

\* The RX session's make: what it returns for the given port id and allocator.
rxSessionMake(kind, port_id, allocated) ==
    IF port_id > portIdMax(kind) THEN "ArgumentError"
    ELSE IF ~allocated THEN "MemoryError"
    ELSE None

\* The ports the framer's RPC dispatcher listens on: one per live request or
\* response RX session, whose delegate is the port's user reference.
rpcPorts(live) ==
    {s \in DOMAIN live : s.kind \in {"Request", "Response"} /\ live[s] > 0}

\* --------------------------------------------------------- call positions

NoEv == Ev("none", 0, NoItem, "none")

\* No call in progress.
Idle == [op |-> "none", loop |-> "none", at |-> "idle", m |-> 0, now |-> 0,
         fail |-> None, report |-> "none", item |-> NoItem, session |-> NoSession,
         new_node_id |-> 0, timestamp |-> 0, timeout |-> 0]

\* The call returns `failure` (None: no failure).
returning(p, failure) ==
    [Idle EXCEPT !.op = p.op, !.at = "return", !.now = p.now, !.fail = failure,
                 !.session = p.session]

\* run(now): TX first; RX only once runMediaTransmit has returned no failure.
\* sendAnyTransfer returns nullopt after its loop; makeMessageTxSession goes on
\* to MessageTxSession::make after ensureMediaTxSockets, makeRequestRxSession and
\* makeResponseRxSession to makeAnyRxSession after ensureMediaRxSockets.
afterLoop(p) ==
    CASE p.loop = "runMediaTransmit" ->
            [p EXCEPT !.loop = "runMediaReceive", !.at = "rx_socket", !.m = 0]
      [] p.loop = "ensureMediaTxSockets" -> [p EXCEPT !.at = "make", !.m = 0]
      [] p.loop = "ensureMediaRxSockets" -> [p EXCEPT !.at = "ensure_node", !.m = 0]
      [] OTHER -> returning(p, None)

\* A run whose RX pump would start as soon as one medium's TX drain is over.
nextMediaRxEarly(p) ==
    IF p.loop = "runMediaTransmit"
    THEN [p EXCEPT !.loop = "runMediaReceive", !.at = "rx_socket", !.m = 0]
    ELSE IF p.m + 1 \in Media
    THEN [p EXCEPT !.m = p.m + 1,
                   !.at = IF p.loop \in {"runMediaReceive", "ensureMediaRxSockets"}
                          THEN "rx_socket" ELSE "tx_socket"]
    ELSE afterLoop(p)

\* `for (Media& media : media_array_)`: the loop goes on with the medium after p.m.
nextMedia(p) ==
    IF p.m + 1 \in Media
    THEN [p EXCEPT !.m = p.m + 1,
                   !.at = IF p.loop \in {"runMediaReceive", "ensureMediaRxSockets"}
                          THEN "rx_socket" ELSE "tx_socket"]
    ELSE afterLoop(p)

\* A run that would go on to drain the medium whose TX socket could not be made.
failingDrains(p, report, failure, item) ==
    IF p.op = "run" /\ report = "MediaMakeTxSocket"
    THEN [p EXCEPT !.at = "drain"]
    ELSE [p EXCEPT !.at = "handle", !.report = report, !.fail = failure, !.item = item]

\* A transient failure is handed to tryHandleTransient...; `item`: the TX item it is about.
failing(p, report, failure, item) ==
    [p EXCEPT !.at = "handle", !.report = report, !.fail = failure, !.item = item]

\* ------------------------------------------------- transient error handler

\* A transport that would return the original failure in place of the handler's own.
handlerAnswerOriginal(handler, report, m, failure) ==
    IF handler = "swallow" THEN None ELSE failure

\* What the installed handler answers to a report: none, or a failure of its own.
handlerAnswer(handler, report, m, failure) ==
    CASE handler = "swallow" -> None
      [] handler = "escalate" -> "HandlerFailure"
      [] OTHER -> failure

\* A send that would try the same medium again once the handler has swallowed
\* its failure.
resumeSameMedium(p) ==
    LET q == [p EXCEPT !.report = "none", !.fail = None,
                       !.item = IF p.op = "send" THEN p.item ELSE NoItem]
    IN  IF p.report = "MediaTxSocketSend" THEN [q EXCEPT !.at = "drain"]
        ELSE IF p.op = "send" THEN [q EXCEPT !.at = "tx_socket"]
        ELSE nextMedia(q)

\* A call that would end (without failure) once the handler has swallowed a failure.
resumeReturn(p) == returning(p, None)

\* Where the call goes on once the handler has swallowed the failure.
resume(p) ==
    LET q == [p EXCEPT !.report = "none", !.fail = None,
                       !.item = IF p.op = "send" THEN p.item ELSE NoItem]
    IN  IF p.report = "MediaTxSocketSend" THEN [q EXCEPT !.at = "drain"] ELSE nextMedia(q)

\* A transport that would return a failure of its own when no handler is installed.
transientResultAnonymous(handler, report, m, failure) ==
    IF handler = "unset" THEN "AnonymousError" ELSE handlerAnswer(handler, report, m, failure)

\* A transport that would return every failure, whatever the handler answers.
transientResultUnhandled(handler, report, m, failure) == failure

\* What tryHandleTransientMediaError / tryHandleTransientUdpardResult return for a failure.
transientResult(handler, report, m, failure) ==
    IF handler = "unset" THEN failure ELSE handlerAnswer(handler, report, m, failure)

tryHandleTransient ==
    /\ pc.at = "handle"
    /\ LET answer == transientResult(transient_error_handler_, pc.report, pc.m, pc.fail) IN
       /\ ev' = IF transient_error_handler_ = "unset" THEN ev
                ELSE Ev("handler", pc.m, pc.item, pc.report)
       /\ pc' = IF answer = None THEN resume(pc) ELSE returning(pc, answer)
    /\ UNCHANGED <<others, transport, blocked, rx_socket_asked>>

\* ------------------------------------------------------------ TX sockets

\* A send that would push the transfer to no medium's queue.
txActionNoPush(p) ==
    CASE p.op = "run" -> [p EXCEPT !.at = "drain"]
      [] OTHER -> nextMedia(p)

\* The action withEnsureMediaTxSocket runs once the medium has a TX socket.
txAction(p) ==
    CASE p.op = "run" -> [p EXCEPT !.at = "drain"]
      [] p.op = "send" -> [p EXCEPT !.at = "push"]
      [] OTHER -> nextMedia(p)

\* A transport that would not keep the socket its factory has made.
storeSocketDiscarding(socket_ptrs, m, r) == socket_ptrs

\* The factory's answer becomes the medium's socket pointer (null unless a socket).
storeSocket(socket_ptrs, m, r) == [socket_ptrs EXCEPT ![m] = (r = "socket")]

\* A transport that would ask the factory for a socket whenever a medium is reached.
hasSocketNever(socket_ptrs, m) == FALSE

\* `if (!media.tx_socket_ptr())`, `if (!media.rx_socket_ptr())`: the medium has its socket.
hasSocket(socket_ptrs, m) == socket_ptrs[m]

withEnsureMediaTxSocket ==
    /\ pc.at = "tx_socket"
    /\ IF hasSocket(tx_socket_ptr_, pc.m)
       THEN /\ pc' = txAction(pc)
            /\ ev' = NoEv
            /\ UNCHANGED tx_socket_ptr_
       ELSE \E r \in MakeSocketResults :
            /\ ev' = Ev("makeTxSocket", pc.m, NoItem, r)
            /\ tx_socket_ptr_' = storeSocket(tx_socket_ptr_, pc.m, r)
            /\ pc' = IF r = "socket" THEN txAction(pc)
                     ELSE failing(pc, "MediaMakeTxSocket",
                                  IF r = "null" THEN "MemoryError" ELSE r, pc.item)
    /\ UNCHANGED <<others, sessions, node_id_, svc_rx_sockets_endpoint_, transient_error_handler_,
                   rx_socket_ptr_, udpard_tx_, tx_session_, send_timeout_, blocked,
                   rx_socket_asked>>

\* --------------------------------------------------------------- TX drain

\* A drain that would take an item for expired only after its deadline.
isExpiredAfterDeadline(now, deadline) == now > deadline

\* `now >= deadline`: the item has expired.
isExpired(now, deadline) == now >= deadline

\* A drain that would drop the failed frame alone.
afterSendFailureOneFrame(q) == popAndFreeUdpardTxItem(q, FALSE)

\* The queue after a socket send failure on its head item.
afterSendFailure(q) == popAndFreeUdpardTxItem(q, TRUE)

\* A drain that would pop the head item even when the socket did not accept it.
afterSendPopping(q, send_result) ==
    IF send_result \in {"accepted", "not_accepted"}
    THEN popAndFreeUdpardTxItem(q, FALSE)
    ELSE afterSendFailure(q)

\* The queue after the socket has answered `send_result` for the head item.
afterSend(q, send_result) ==
    CASE send_result = "accepted" -> popAndFreeUdpardTxItem(q, FALSE)
      [] send_result = "not_accepted" -> q
      [] OTHER -> afterSendFailure(q)

\* A drain that would offer the same item again when the socket did not accept it.
afterSendPcRetrying(p, tx_item, send_result) ==
    IF send_result \in {"accepted", "not_accepted"}
    THEN p
    ELSE failing(p, "MediaTxSocketSend", send_result, tx_item)

\* A drain that would leave the medium after one accepted frame.
afterSendPcOneFrame(p, tx_item, send_result) ==
    IF send_result \in {"accepted", "not_accepted"}
    THEN nextMedia(p)
    ELSE failing(p, "MediaTxSocketSend", send_result, tx_item)

\* Where the drain goes on after the socket has answered for `tx_item`.
afterSendPc(p, tx_item, send_result) ==
    CASE send_result = "accepted" -> p
      [] send_result = "not_accepted" -> nextMedia(p)
      [] OTHER -> failing(p, "MediaTxSocketSend", send_result, tx_item)

\* A drain that would look at the item queued last.
txPeekLast(q) == q[Len(q)]

\* The item the drain looks at: udpardTxPeek.
txPeek(q) == Head(q)

\* One iteration of the `while` loop of runSingleMediaTransmit.
runSingleMediaTransmit ==
    /\ pc.at = "drain"
    /\ LET q == udpard_tx_[pc.m] IN
       IF q = <<>>
       THEN /\ pc' = nextMedia(pc)
            /\ ev' = NoEv
            /\ blocked' = [blocked EXCEPT ![pc.m] = NoItem]
            /\ UNCHANGED udpard_tx_
       ELSE LET tx_item == txPeek(q) IN
            IF isExpired(pc.now, tx_item.deadline)
            THEN /\ udpard_tx_' = [udpard_tx_ EXCEPT ![pc.m] = popAndFreeUdpardTxItem(q, TRUE)]
                 /\ ev' = Ev("expire", pc.m, tx_item, "dropped")
                 /\ blocked' = [blocked EXCEPT ![pc.m] = IF @ = tx_item THEN NoItem ELSE @]
                 /\ UNCHANGED pc
            ELSE \E send_result \in SendResults :
                 /\ ev' = Ev("send", pc.m, tx_item, send_result)
                 /\ udpard_tx_' = [udpard_tx_ EXCEPT ![pc.m] = afterSend(q, send_result)]
                 /\ pc' = afterSendPc(pc, tx_item, send_result)
                 /\ blocked' = [blocked EXCEPT ![pc.m] =
                                    IF send_result = "not_accepted" THEN tx_item ELSE NoItem]
    /\ UNCHANGED <<others, sessions, node_id_, svc_rx_sockets_endpoint_, transient_error_handler_,
                   tx_socket_ptr_, rx_socket_ptr_, tx_session_, send_timeout_,
                   rx_socket_asked>>

\* ---------------------------------------------------------------- RX pump

\* The action withEnsureMediaRxSocket runs once the medium has an RX socket:
\* run receives from it, ensureMediaRxSockets does nothing with it.
rxAction(p) ==
    IF p.op = "run" THEN [p EXCEPT !.at = "receive"] ELSE nextMedia(p)

\* A transport that would make RX sockets without an endpoint to bind them to.
canMakeRxSocketAlways(endpoint) == TRUE

\* No RX socket is made while svc_rx_sockets_endpoint_ has no value.
canMakeRxSocket(endpoint) == endpoint # {}

withEnsureMediaRxSocket ==
    /\ pc.at = "rx_socket"
    /\ IF hasSocket(rx_socket_ptr_, pc.m)
       THEN /\ pc' = rxAction(pc)
            /\ ev' = NoEv
            /\ UNCHANGED <<rx_socket_ptr_, rx_socket_asked>>
       ELSE IF ~canMakeRxSocket(svc_rx_sockets_endpoint_)
       THEN /\ pc' = nextMedia(pc)
            /\ ev' = NoEv
            /\ UNCHANGED <<rx_socket_ptr_, rx_socket_asked>>
       ELSE \E r \in MakeSocketResults :
            /\ ev' = Ev("makeRxSocket", pc.m, NoItem, r)
            /\ rx_socket_ptr_' = storeSocket(rx_socket_ptr_, pc.m, r)
            /\ rx_socket_asked' = [rx_socket_asked EXCEPT ![pc.m] = TRUE]
            /\ pc' = IF r = "socket" THEN rxAction(pc)
                     ELSE failing(pc, "MediaMakeRxSocket",
                                  IF r = "null" THEN "MemoryError" ELSE r, NoItem)
    /\ UNCHANGED <<others, sessions, node_id_, svc_rx_sockets_endpoint_, transient_error_handler_,
                   tx_socket_ptr_, udpard_tx_, tx_session_, send_timeout_, blocked>>

\* runSingleMediaReceive, step 1: one receive on the medium's RX socket.
\* A pump that would let go of the datagram it has received.
afterReceiveDropping(p, receive_result, timestamp) ==
    CASE receive_result \in {"nothing", "datagram"} -> nextMedia(p)
      [] OTHER -> failing(p, "MediaRxSocketReceive", receive_result, NoItem)

\* Nothing received: the next medium; a datagram: on to the dispatcher with its
\* metadata; a failure: to the handler.
afterReceive(p, receive_result, timestamp) ==
    CASE receive_result = "nothing" -> nextMedia(p)
      [] receive_result = "datagram" -> [p EXCEPT !.at = "dispatch", !.timestamp = timestamp]
      [] OTHER -> failing(p, "MediaRxSocketReceive", receive_result, NoItem)

runSingleMediaReceive ==
    /\ pc.at = "receive"
    /\ \E receive_result \in ReceiveResults, timestamp \in Times :
        /\ receive_result # "datagram" => timestamp = 0
        /\ ev' = [Ev("receive", pc.m, NoItem, receive_result) EXCEPT !.timestamp = timestamp]
        /\ pc' = afterReceive(pc, receive_result, timestamp)
    /\ UNCHANGED <<others, transport, blocked, rx_socket_asked>>

\* The reception time handed to the framer: rx_meta.timestamp as a count of
\* microseconds since the epoch (the model's time unit is the microsecond).
timestamp_us(timestamp) == timestamp

\* A pump that would receive again from the medium whose datagram it has dispatched.
afterDispatchReceiveAgain(p, result) ==
    IF result \in {"incomplete", "completed"} THEN [p EXCEPT !.at = "receive"]
    ELSE failing(p, "UdpardRxSvcReceive", result, NoItem)

\* runSingleMediaReceive returns once the datagram is dispatched: the media
\* loop goes on, or the dispatcher's failure is handed to the handler.
afterDispatch(p, result) ==
    IF result \in {"incomplete", "completed"} THEN nextMedia(p)
    ELSE failing(p, "UdpardRxSvcReceive", result, NoItem)

\* runSingleMediaReceive, steps 2 and 3: the datagram goes to the framer's dispatcher,
\* and a completed transfer to the session delegate.
rpcDispatcherReceive ==
    /\ pc.at = "dispatch"
    /\ \E result \in DispatcherResults, session \in rpcPorts(rx_sessions) \cup {NoSession} :
        /\ (result = "completed") = (session # NoSession)
        /\ ev' = [Ev("rpcDispatcherReceive", pc.m, NoItem, result)
                     EXCEPT !.session = session, !.timestamp = timestamp_us(pc.timestamp)]
        /\ pc' = afterDispatch([pc EXCEPT !.timestamp = 0], result)
    /\ UNCHANGED <<others, transport, blocked, rx_socket_asked>>

\* ------------------------------------------------------------------- run

run(now) ==
    /\ pc.at = "idle"
    /\ pc' = [Idle EXCEPT !.op = "run", !.loop = "runMediaTransmit", !.at = "tx_socket",
                          !.now = now]
    /\ ev' = NoEv
    /\ UNCHANGED <<others, transport, blocked, rx_socket_asked>>

\* ------------------------------------------------------------------ send

\* A TX session that would keep to its default timeout whatever was set.
sendDeadlineDefault(timestamp, send_timeout) == timestamp + DefaultSendTimeout

\* The deadline a TX session hands to the transport.
sendDeadline(timestamp, send_timeout) == timestamp + send_timeout

\* MessageTxSession::setSendTimeout.
setSendTimeout(timeout) ==
    /\ pc.at = "idle"
    /\ tx_session_
    /\ send_timeout_' = timeout
    /\ pc' = [returning([Idle EXCEPT !.op = "setSendTimeout"], None) EXCEPT !.timeout = timeout]
    /\ ev' = NoEv
    /\ UNCHANGED <<others, sessions, node_id_, svc_rx_sockets_endpoint_, transient_error_handler_,
                   tx_socket_ptr_, rx_socket_ptr_, udpard_tx_, tx_session_, blocked,
                   rx_socket_asked>>

\* MessageTxSession::send, up to the media loop of sendAnyTransfer;
\* payload_ok: the payload fragments could be made contiguous.
send(timestamp, priority, frame_count, payload_ok) ==
    /\ pc.at = "idle"
    /\ tx_session_
    /\ IF payload_ok
       THEN /\ pc' = [Idle EXCEPT !.op = "send", !.loop = "sendAnyTransfer", !.at = "tx_socket",
                                  !.timestamp = timestamp,
                                  !.item = txFrames(frame_count,
                                                    sendDeadline(timestamp, send_timeout_),
                                                    priority)[1]]
            /\ ev' = NoEv
       ELSE /\ pc' = returning([Idle EXCEPT !.op = "send"], "MemoryError")
            /\ ev' = Ev("contiguousPayload", 0, NoItem, "MemoryError")
    /\ UNCHANGED <<others, transport, blocked, rx_socket_asked>>

\* TxTransferHandler: the transfer is pushed to the medium's TX queue.
txTransferHandler ==
    /\ pc.at = "push"
    /\ \E result \in txPushResults(udpard_tx_[pc.m], pc.item.rest + 1) :
        /\ ev' = Ev("txPush", pc.m, pc.item, result)
        /\ udpard_tx_' = IF result = "ok"
                         THEN [udpard_tx_ EXCEPT ![pc.m] =
                                  txPush(@, txFrames(pc.item.rest + 1, pc.item.deadline,
                                                     pc.item.prio))]
                         ELSE udpard_tx_
        /\ pc' = IF result = "ok" THEN nextMedia(pc)
                 ELSE failing(pc, "UdpardTxPublish", result, pc.item)
    /\ UNCHANGED <<others, sessions, node_id_, svc_rx_sockets_endpoint_, transient_error_handler_,
                   tx_socket_ptr_, rx_socket_ptr_, tx_session_, send_timeout_, blocked,
                   rx_socket_asked>>

\* ------------------------------------------------------------ TX sessions

\* A session factory that would not look at the subject id.
messageTxSessionMakeUnchecked(subject_id_in_range, allocated) ==
    IF ~allocated THEN "MemoryError" ELSE None

\* MessageTxSession::make: what it returns for the given parameters and allocator.
messageTxSessionMake(subject_id_in_range, allocated) ==
    IF ~subject_id_in_range THEN "ArgumentError"
    ELSE IF ~allocated THEN "MemoryError"
    ELSE None

makeMessageTxSession ==
    /\ pc.at = "idle"
    /\ pc' = [Idle EXCEPT !.op = "makeMessageTxSession", !.loop = "ensureMediaTxSockets",
                          !.at = "tx_socket"]
    /\ ev' = NoEv
    /\ UNCHANGED <<others, transport, blocked, rx_socket_asked>>

makeSession ==
    /\ pc.at = "make"
    /\ \E subject_id \in PortIds, allocated \in BOOLEAN :
        LET res == messageTxSessionMake(subject_id <= portIdMax("Message"), allocated) IN
        /\ tx_session_' = (tx_session_ \/ res = None)
        /\ pc' = returning(pc, res)
        /\ ev' = [Ev("make", 0, NoItem, res)
                     EXCEPT !.session = [kind |-> "Message", port |-> subject_id]]
    /\ UNCHANGED <<others, sessions, node_id_, svc_rx_sockets_endpoint_, transient_error_handler_,
                   tx_socket_ptr_, rx_socket_ptr_, udpard_tx_, send_timeout_, blocked,
                   rx_socket_asked>>

\* ------------------------------------------------------------ RX sessions

\* A transport with one tree for the RX sessions of both service kinds.
nodesOfOneServiceTree(kind) ==
    IF kind = "Message" THEN msg_rx_session_nodes_ ELSE svc_request_rx_session_nodes_

\* The tree a factory hands to makeAnyRxSession, and onSessionEvent removes from.
nodesOf(kind) ==
    CASE kind = "Message" -> msg_rx_session_nodes_
      [] kind = "Request" -> svc_request_rx_session_nodes_
      [] OTHER -> svc_response_rx_session_nodes_

\* A transport whose response factory would work on the tree of the requests.
setNodesOfRequestTreeTwice(kind, nodes) ==
    /\ msg_rx_session_nodes_' = IF kind = "Message" THEN nodes ELSE msg_rx_session_nodes_
    /\ svc_request_rx_session_nodes_' =
           IF kind \in {"Request", "Response"} THEN nodes ELSE svc_request_rx_session_nodes_
    /\ svc_response_rx_session_nodes_' = svc_response_rx_session_nodes_

\* The tree of the kind becomes `nodes`; the other trees stay.
setNodesOf(kind, nodes) ==
    /\ msg_rx_session_nodes_' = IF kind = "Message" THEN nodes ELSE msg_rx_session_nodes_
    /\ svc_request_rx_session_nodes_' =
           IF kind = "Request" THEN nodes ELSE svc_request_rx_session_nodes_
    /\ svc_response_rx_session_nodes_' =
           IF kind = "Response" THEN nodes ELSE svc_response_rx_session_nodes_

makeMessageRxSession(subject_id) ==
    /\ pc.at = "idle"
    /\ pc' = [Idle EXCEPT !.op = "makeMessageRxSession", !.at = "ensure_node",
                          !.session = [kind |-> "Message", port |-> subject_id]]
    /\ ev' = NoEv
    /\ UNCHANGED <<others, transport, blocked, rx_socket_asked>>

makeRequestRxSession(service_id) ==
    /\ pc.at = "idle"
    /\ pc' = [Idle EXCEPT !.op = "makeRequestRxSession", !.loop = "ensureMediaRxSockets",
                          !.at = "rx_socket",
                          !.session = [kind |-> "Request", port |-> service_id]]
    /\ ev' = NoEv
    /\ UNCHANGED <<others, transport, blocked, rx_socket_asked>>

makeResponseRxSession(service_id) ==
    /\ pc.at = "idle"
    /\ pc' = [Idle EXCEPT !.op = "makeResponseRxSession", !.loop = "ensureMediaRxSockets",
                          !.at = "rx_socket",
                          !.session = [kind |-> "Response", port |-> service_id]]
    /\ ev' = NoEv
    /\ UNCHANGED <<others, transport, blocked, rx_socket_asked>>

\* A factory that would go on to make the session whatever ensureNewNodeFor answers.
afterEnsureNodeAlways(p, node_result) == [p EXCEPT !.at = "session_make"]

\* makeAnyRxSession returns the failure of ensureNewNodeFor, if any.
afterEnsureNode(p, node_result) ==
    IF node_result = "node" THEN [p EXCEPT !.at = "session_make"]
    ELSE returning(p, node_result)

\* makeAnyRxSession, step 1: the tree gets a new node for the port id.
ensureNewNodeFor ==
    /\ pc.at = "ensure_node"
    /\ LET kind == pc.session.kind
           port_id == pc.session.port
       IN  \E node_result \in ensureNewNodeForResults(nodesOf(kind), port_id) :
           /\ ev' = [Ev("ensureNewNodeFor", 0, NoItem, node_result)
                        EXCEPT !.session = pc.session]
           /\ setNodesOf(kind, IF node_result = "node" THEN nodesOf(kind) \cup {port_id}
                               ELSE nodesOf(kind))
           /\ pc' = afterEnsureNode(pc, node_result)
    /\ UNCHANGED <<others, node_id_, svc_rx_sockets_endpoint_, transient_error_handler_,
                   tx_socket_ptr_, rx_socket_ptr_, udpard_tx_, tx_session_, send_timeout_,
                   rx_sessions, blocked, rx_socket_asked>>

\* A factory that would leave the node in the tree when the session's make fails.
afterSessionMakeKeepNode(nodes, port_id, session_result) == nodes

\* The node is removed again when the session's make has failed.
afterSessionMake(nodes, port_id, session_result) ==
    IF session_result # None THEN removeNodeFor(nodes, port_id) ELSE nodes

\* makeAnyRxSession, step 2: the session is made; its node goes if that fails.
makeAnyRxSession ==
    /\ pc.at = "session_make"
    /\ LET kind == pc.session.kind
           port_id == pc.session.port
       IN  \E allocated \in BOOLEAN :
           LET session_result == rxSessionMake(kind, port_id, allocated) IN
           /\ ev' = [Ev("rxSessionMake", 0, NoItem,
                         IF session_result = None THEN "session" ELSE session_result)
                        EXCEPT !.session = pc.session]
           /\ rx_sessions' = IF session_result = None
                             THEN [rx_sessions EXCEPT ![pc.session] = @ + 1]
                             ELSE rx_sessions
           /\ setNodesOf(kind, afterSessionMake(nodesOf(kind), port_id, session_result))
           /\ pc' = returning(pc, session_result)
    /\ UNCHANGED <<others, node_id_, svc_rx_sockets_endpoint_, transient_error_handler_,
                   tx_socket_ptr_, rx_socket_ptr_, udpard_tx_, tx_session_, send_timeout_,
                   blocked, rx_socket_asked>>

\* A transport that would keep the node of a destroyed session.
onSessionDestroyedKeepNode(nodes, port_id) == nodes

\* onSessionEvent for a Destroyed event: the tree of the kind loses the node.
onSessionDestroyed(nodes, port_id) == removeNodeFor(nodes, port_id)

\* The application destroys an RX session it holds; the session's destructor
\* stops the framer's port and reports SessionEvent::...::Destroyed.
destroyRxSession(session) ==
    /\ pc.at = "idle"
    /\ rx_sessions[session] > 0
    /\ rx_sessions' = [rx_sessions EXCEPT ![session] = @ - 1]
    /\ setNodesOf(session.kind, onSessionDestroyed(nodesOf(session.kind), session.port))
    /\ ev' = [Ev("onSessionEvent", 0, NoItem, "Destroyed") EXCEPT !.session = session]
    /\ UNCHANGED <<others, node_id_, svc_rx_sockets_endpoint_, transient_error_handler_,
                   tx_socket_ptr_, rx_socket_ptr_, udpard_tx_, tx_session_, send_timeout_,
                   pc, blocked, rx_socket_asked>>

\* ------------------------------------------------- node id and the handler

setTransientErrorHandler(handler) ==
    /\ pc.at = "idle"
    /\ transient_error_handler_' = handler
    /\ UNCHANGED <<others, sessions, node_id_, svc_rx_sockets_endpoint_, tx_socket_ptr_,
                   rx_socket_ptr_,
                   udpard_tx_, tx_session_, send_timeout_, pc, ev, blocked, rx_socket_asked>>

\* The endpoint RX sockets are bound to, derived from the node id.
setNodeId(new_node_id) == [service_node_id |-> new_node_id]

\* getLocalNodeId: an optional, {} when the node id is not set.
getLocalNodeId(node_id) ==
    IF node_id > UDPARD_NODE_ID_MAX THEN {} ELSE {node_id}

\* A setLocalNodeId that would compare with the current id before the range check.
setLocalNodeIdResultSameFirst(current, new_node_id) ==
    IF current = new_node_id THEN None
    ELSE IF new_node_id > UDPARD_NODE_ID_MAX THEN "ArgumentError"
    ELSE IF current # UDPARD_NODE_ID_UNSET THEN "ArgumentError"
    ELSE None

\* A transport whose node id could be set again to another one.
setLocalNodeIdResultAgain(current, new_node_id) ==
    IF new_node_id > UDPARD_NODE_ID_MAX THEN "ArgumentError" ELSE None

\* What setLocalNodeId returns.
setLocalNodeIdResult(current, new_node_id) ==
    IF new_node_id > UDPARD_NODE_ID_MAX THEN "ArgumentError"
    ELSE IF current = new_node_id THEN None
    ELSE IF current # UDPARD_NODE_ID_UNSET THEN "ArgumentError"
    ELSE None

setLocalNodeId(new_node_id) ==
    /\ pc.at = "idle"
    /\ LET res == setLocalNodeIdResult(node_id_, new_node_id)
           assigned == res = None /\ node_id_ # new_node_id
       IN  /\ node_id_' = IF assigned THEN new_node_id ELSE node_id_
           /\ svc_rx_sockets_endpoint_' =
                  IF assigned THEN {setNodeId(new_node_id)} ELSE svc_rx_sockets_endpoint_
           /\ pc' = [returning([Idle EXCEPT !.op = "setLocalNodeId"], res)
                       EXCEPT !.new_node_id = new_node_id]
    /\ ev' = NoEv
    /\ UNCHANGED <<others, sessions, transient_error_handler_, tx_socket_ptr_, rx_socket_ptr_,
                   udpard_tx_,
                   tx_session_, send_timeout_, blocked,
                   rx_socket_asked>>

\* ------------------------------------------------------------- teardown

\* A flush that would free the front item only and leave the rest queued.
afterFlushPopOnce(p) ==
    IF p.m + 1 \in Media THEN [p EXCEPT !.m = p.m + 1] ELSE [p EXCEPT !.at = "destroyed"]

\* flushUdpardTxQueue is a `while` over udpardTxPeek: after a pop it peeks again.
afterFlushPop(p) == p

\* ~TransportImpl: every medium's TX queue is flushed, first medium first.
TransportImplDestructor ==
    /\ pc.at = "idle"
    /\ pc' = [Idle EXCEPT !.op = "~TransportImpl", !.loop = "flushUdpardTxQueue", !.at = "flush"]
    /\ ev' = NoEv
    /\ UNCHANGED <<others, transport, blocked, rx_socket_asked>>

\* One iteration of the `while` loop of flushUdpardTxQueue, or its end.
flushUdpardTxQueue ==
    /\ pc.at = "flush"
    /\ LET q == udpard_tx_[pc.m] IN
       IF q = <<>>
       THEN /\ pc' = IF pc.m + 1 \in Media THEN [pc EXCEPT !.m = pc.m + 1]
                     ELSE [pc EXCEPT !.at = "destroyed"]
            /\ ev' = NoEv
            /\ UNCHANGED udpard_tx_
       ELSE /\ udpard_tx_' = [udpard_tx_ EXCEPT ![pc.m] = popAndFreeUdpardTxItem(q, FALSE)]
            /\ ev' = Ev("udpardTxFree", pc.m, txPeek(q), "freed")
            /\ pc' = afterFlushPop(pc)
    /\ UNCHANGED <<others, sessions, node_id_, svc_rx_sockets_endpoint_, transient_error_handler_,
                   tx_socket_ptr_, rx_socket_ptr_, tx_session_, send_timeout_, blocked,
                   rx_socket_asked>>

\* The call in progress returns to its caller.
return ==
    /\ pc.at = "return"
    /\ pc' = Idle
    /\ ev' = NoEv
    /\ UNCHANGED <<others, transport, blocked, rx_socket_asked>>

\* ---------------------------------------------------------------- factory

\* A count that would take the null pointers of the span for media as well.
media_countAll(media) == Len(media)

\* std::count_if over the span: the number of non-null media.
media_count(media) == Cardinality({i \in DOMAIN media : media[i] # nullptr})

\* makeMediaArray: one Media per non-null pointer, in the span's order, each with
\* its index, a TX queue just initialised and no socket; an array left empty
\* when the space for it cannot be reserved.
makeMediaArray(count, media, reserved) ==
    IF ~reserved THEN <<>>
    ELSE LET present == SelectSeq(media, LAMBDA media_interface : media_interface # nullptr)
         IN  [index \in 1 .. Len(present) |->
                 [index |-> index - 1, interface |-> present[index], udpard_tx |-> <<>>,
                  rx_socket_ptr |-> FALSE, tx_socket_ptr |-> FALSE]]

\* TransportImpl::make: the failure returned, or the transport made.
make(media, mem) ==
    LET count == media_count(media)
        media_array == makeMediaArray(count, media, mem # "media_array")
    IN  IF count = 0 \/ count > UDPARD_NETWORK_INTERFACE_COUNT_MAX
        THEN [failure |-> "ArgumentError", transport |-> NoTransport]
        ELSE IF Len(media_array) # count
        THEN [failure |-> "MemoryError", transport |-> NoTransport]
        ELSE IF mem = "transport"
        THEN [failure |-> "MemoryError", transport |-> NoTransport]
        ELSE [failure |-> None,
              transport |-> [exists |-> TRUE, media_array_ |-> media_array,
                             node_id_ |-> UDPARD_NODE_ID_UNSET]]

\* The application calls the factory with the span and the memory it has.
makeTransport ==
    /\ made = NotCalled
    /\ made' = make(media_interfaces, memory)
    /\ UNCHANGED <<udp, library, media_interfaces, memory, provider, reassembly, executor>>

\* ------------------------------------------------------ registry provider

\* A provider that would answer within the default timeout whatever was set.
responseDeadlineDefault(timestamp, timeout) == timestamp + DefaultResponseTimeout

\* The deadline of a response: the request's reception time plus the timeout.
responseDeadline(timestamp, timeout) == timestamp + timeout

\* The metadata of the response to `request`.
responseMetadata(request, timeout) ==
    [transfer_id |-> request.transfer_id, priority |-> request.priority,
     remote_node_id |-> request.remote_node_id,
     deadline |-> responseDeadline(request.timestamp, timeout)]

\* RegistryProvider::setResponseTimeout.
setResponseTimeout(timeout) ==
    /\ response_timeout_' = timeout
    /\ last_timeout' = timeout
    /\ UNCHANGED <<udp, library, factory, reassembly, executor, requests, responses>>

\* The request RX session's callback: the provider answers the request through
\* its response TX session.
onRequest(transfer_id, priority, remote_node_id, timestamp) ==
    /\ Len(requests) < MaxRequests
    /\ LET request == [transfer_id |-> transfer_id, priority |-> priority,
                       remote_node_id |-> remote_node_id, timestamp |-> timestamp,
                       timeout_given |-> last_timeout]
       IN  /\ requests' = Append(requests, request)
           /\ responses' = Append(responses, responseMetadata(request, response_timeout_))
    /\ UNCHANGED <<udp, library, factory, reassembly, executor, response_timeout_, last_timeout>>

\* ------------------------------------------------------------ reassembly

\* The frames of one transfer on the wire.
wireFrames(transfer_id, priority, remote_node_id, payloads) ==
    [i \in 1 .. Len(payloads) |->
        [transfer_id |-> transfer_id, priority |-> priority, remote_node_id |-> remote_node_id,
         payload |-> payloads[i], eot |-> i = Len(payloads)]]

\* The payload handed over: the reassembled bytes, cut to the session's extent.
cutToExtent(payload) ==
    IF Len(payload) > Extent THEN SubSeq(payload, 1, Extent) ELSE payload

\* udpardRxRPCDispatcherReceive on one frame: 0 and nothing while the transfer is
\* incomplete, 1 and the transfer on its final frame.
udpardRxRPCDispatcherReceive(port, frame) ==
    IF frame.eot
    THEN [result |-> 1, port |-> <<>>,
          out_transfer |-> [transfer_id |-> frame.transfer_id, priority |-> frame.priority,
                            remote_node_id |-> frame.remote_node_id,
                            payload |-> cutToExtent(port \o frame.payload)]]
    ELSE [result |-> 0, port |-> port \o frame.payload, out_transfer |-> BlankTransfer]

\* A pump that would hand out_transfer to the delegate whenever nothing failed.
passesToDelegateUnlessFailed(failure, result) == failure = None /\ result >= 0

\* runSingleMediaReceive, step 3: the delegate gets the transfer only when the
\* dispatcher completed one and nothing failed.
passesToDelegate(failure, result) == failure = None /\ result > 0

\* One run's RX pump on the medium of the session: one receive, and when it
\* yields a frame, the dispatcher and the delegate's acceptRxTransfer.
runReceiveFrame ==
    /\ IF wire = <<>>
       THEN UNCHANGED <<wire, arrived, rx_port, last_rx_transfer_, accepted>>
       ELSE LET out == udpardRxRPCDispatcherReceive(rx_port, Head(wire))
                passed == passesToDelegate(None, out.result)
            IN  /\ wire' = Tail(wire)
                /\ arrived' = Append(arrived, Head(wire))
                /\ rx_port' = out.port
                /\ last_rx_transfer_' = IF passed THEN {out.out_transfer} ELSE last_rx_transfer_
                /\ accepted' = IF passed THEN Append(accepted, out.out_transfer) ELSE accepted
    /\ UNCHANGED <<udp, library, factory, provider, executor, delivered>>

\* The RX session's receive: the transfer held, which it gives away, or nothing.
sessionReceive ==
    /\ delivered' = IF last_rx_transfer_ = {} THEN delivered
                    ELSE delivered \o <<CHOOSE t \in last_rx_transfer_ : TRUE>>
    /\ last_rx_transfer_' = {}
    /\ UNCHANGED <<udp, library, factory, provider, executor, wire, arrived, rx_port, accepted>>

\* --------------------------------------------------------------- executor

\* A callback id the executor has not handed out.
NoCallback ==
    [state |-> "none", auto_remove |-> FALSE, armed |-> Unarmed, waits |-> FALSE,
     given |-> Unarmed, replaced |-> FALSE]

NoCall == [op |-> "none", id |-> 0, res |-> FALSE, inside |-> FALSE, due |-> FALSE]

\* An order of execution that would follow registration alone.
runsBeforeById(cbs, a, b) == a < b

\* a runs before b: the earlier scheduled time first, and of two callbacks
\* scheduled for the same time the one registered first.
runsBefore(cbs, a, b) ==
    \/ cbs[a].armed < cbs[b].armed
    \/ (cbs[a].armed = cbs[b].armed /\ a < b)

\* The callbacks a spin_once at `now` has still to run: the nodes armed for a
\* time that has come, but for those armed during this spin_once.
dueCallbacks(cbs, now) ==
    {id \in CallbackIds : /\ cbs[id].armed # Unarmed
                          /\ cbs[id].armed <= now
                          /\ ~cbs[id].waits}

\* An executor that would keep the earlier of two armings.
rearmEarliest(armed, time_point) ==
    IF armed # Unarmed /\ armed < time_point THEN armed ELSE time_point

\* scheduleCallbackByIdAt on a callback armed for `armed`: the last setup wins.
rearm(armed, time_point) == time_point

\* An executor that would run within a spin_once what was armed during it.
armingWaitsNever(in_spin) == FALSE

\* An arming made while spin_once runs waits for the next spin_once.
armingWaits(in_spin) == in_spin

\* A removal that would leave the callback's arming in place.
removedNodeArmed(cb) == [cb EXCEPT !.state = "removed"]

\* removeCallbackById: the node is gone, and its arming with it.
removedNode(cb) ==
    [cb EXCEPT !.state = "removed", !.armed = Unarmed, !.waits = FALSE, !.given = Unarmed,
               !.replaced = FALSE]

\* scheduleCallbackByIdAt(id, time_point) on the nodes `cbs`: the nodes after it.
scheduled(cbs, id, time_point, in_spin) ==
    IF cbs[id].state # "live" THEN cbs
    ELSE [cbs EXCEPT ![id] = [@ EXCEPT !.armed = rearm(@, time_point),
                                       !.waits = armingWaits(in_spin),
                                       !.given = time_point,
                                       !.replaced = /\ cbs[id].armed # Unarmed
                                                     /\ cbs[id].armed < time_point]]

\* removeCallbackById(id) on the nodes `cbs`: the nodes after it.
removed(cbs, id) ==
    IF cbs[id].state # "live" THEN cbs ELSE [cbs EXCEPT ![id] = removedNode(@)]

\* The record of a call of schedule or remove on `id`.
Call(op, cbs, id, inside) ==
    [op |-> op, id |-> id, res |-> cbs[id].state = "live", inside |-> inside,
     due |-> id \in dueCallbacks(cbs, now_)]

\* The id appendCallback hands out next (0 when the ids of the model are used up).
nextCallbackId(cbs) ==
    IF \A id \in CallbackIds : cbs[id].state # "none" THEN 0
    ELSE CHOOSE id \in CallbackIds :
             /\ cbs[id].state = "none"
             /\ \A other \in CallbackIds : other < id => cbs[other].state # "none"

\* appendCallback: a node for the id, or nothing for want of memory.
appendCallback(cbs, id, is_auto_remove, memory_ok) ==
    IF memory_ok
    THEN [cbs EXCEPT ![id] = [NoCallback EXCEPT !.state = "live",
                                                !.auto_remove = is_auto_remove]]
    ELSE cbs

\* registerCallback: appendCallback hands out the next id, or fails for want of
\* memory; the handle holds the id.
registerCallback(is_auto_remove, memory_ok) ==
    /\ ~spinning
    /\ \E id \in CallbackIds :
          /\ id = nextCallbackId(callbacks)
          /\ callbacks' = appendCallback(callbacks, id, is_auto_remove, memory_ok)
          /\ api' = [NoCall EXCEPT !.op = "register", !.id = id, !.res = memory_ok]
    /\ UNCHANGED <<udp, library, factory, provider, reassembly, now_, spinning, ran,
                   armed_this_spin>>

\* The application arms a callback.
scheduleCallbackByIdAt(callback_id, time_point) ==
    /\ ~spinning
    /\ callbacks' = scheduled(callbacks, callback_id, time_point, FALSE)
    /\ api' = Call("schedule", callbacks, callback_id, FALSE)
    /\ UNCHANGED <<udp, library, factory, provider, reassembly, now_, spinning, ran,
                   armed_this_spin>>

\* The application cancels a callback: Handle::reset, or the handle's destructor.
removeCallbackById(callback_id) ==
    /\ ~spinning
    /\ callbacks' = removed(callbacks, callback_id)
    /\ api' = Call("remove", callbacks, callback_id, FALSE)
    /\ UNCHANGED <<udp, library, factory, provider, reassembly, now_, spinning, ran,
                   armed_this_spin>>

\* Time passes between two calls of spin_once.
tick ==
    /\ ~spinning
    /\ now_ < MaxNow
    /\ now_' = now_ + 1
    /\ api' = NoCall
    /\ UNCHANGED <<udp, library, factory, provider, reassembly, callbacks, spinning, ran,
                   armed_this_spin>>

\* spin_once begins.
spinOnce ==
    /\ ~spinning
    /\ spinning' = TRUE
    /\ ran' = <<>>
    /\ armed_this_spin' = {}
    /\ api' = NoCall
    /\ UNCHANGED <<udp, library, factory, provider, reassembly, callbacks, now_>>

\* spin_once runs the next callback due; the callback's function makes at most
\* one call of the executor's interface.
runCallback(body) ==
    /\ spinning
    /\ \E id \in dueCallbacks(callbacks, now_) :
          /\ \A other \in dueCallbacks(callbacks, now_) \ {id} : runsBefore(callbacks, id, other)
          /\ LET fired == [callbacks EXCEPT ![id] =
                              IF @.auto_remove THEN removedNode(@)
                              ELSE [@ EXCEPT !.armed = Unarmed, !.given = Unarmed,
                                             !.replaced = FALSE]]
             IN  /\ ran' = Append(ran, [id |-> id, time |-> callbacks[id].armed,
                                        given |-> callbacks[id].given,
                                        replaced |-> callbacks[id].replaced])
                 /\ CASE body.op = "schedule" ->
                            /\ callbacks' = scheduled(fired, body.id, body.time, TRUE)
                            /\ api' = Call("schedule", fired, body.id, TRUE)
                            /\ armed_this_spin' =
                                   IF fired[body.id].state = "live"
                                   THEN armed_this_spin \cup {body.id}
                                   ELSE armed_this_spin
                      [] body.op = "remove" ->
                            /\ callbacks' = removed(fired, body.id)
                            /\ api' = Call("remove", fired, body.id, TRUE)
                            /\ UNCHANGED armed_this_spin
                      [] OTHER ->
                            /\ callbacks' = fired
                            /\ api' = NoCall
                            /\ UNCHANGED armed_this_spin
    /\ UNCHANGED <<udp, library, factory, provider, reassembly, now_, spinning>>

\* spin_once returns when no callback is left to run.
spinOnceReturns ==
    /\ spinning
    /\ dueCallbacks(callbacks, now_) = {}
    /\ spinning' = FALSE
    /\ callbacks' = [id \in CallbackIds |-> [callbacks[id] EXCEPT !.waits = FALSE]]
    /\ api' = NoCall
    /\ UNCHANGED <<udp, library, factory, provider, reassembly, now_, ran, armed_this_spin>>

\* ---------------------------------------------------------------- handles

\* Handle objects the application may hold.
Handles == {1, 2, 3}

\* `*this`, the executor a handle made by registerCallback points to.
TheExecutor == 1

\* A handle object that does not exist.
NoHandle == [alive |-> FALSE, id_ |-> 0, executor_ |-> nullptr]

\* `Handle() = default;`: id_{0}, executor_{nullptr}.
DefaultHandle == [alive |-> TRUE, id_ |-> 0, executor_ |-> nullptr]

\* Handle::reset: the handle after it.
afterReset(handle) == [handle EXCEPT !.executor_ = nullptr]

\* A move that would leave the executor with the handle moved from.
movedFromKeeping(other) == other

\* `std::exchange(other.executor_, nullptr)`: the handle moved from.
movedFrom(other) == [other EXCEPT !.executor_ = nullptr]

\* Handle::reset on `handle`: the nodes, the count of removals and the record
\* of the call made, if any.
resetCalls(handle, cbs, counts) ==
    IF handle.executor_ # nullptr
    THEN [callbacks |-> removed(cbs, handle.id_),
          removals |-> [counts EXCEPT ![handle.id_] = @ + 1],
          api |-> Call("remove", cbs, handle.id_, FALSE)]
    ELSE [callbacks |-> cbs, removals |-> counts, api |-> NoCall]

\* Handle::moveFrom(other) on the handle `self`: reset, then id_ and executor_
\* are taken from `other`, which is left without executor (other may be self).
moveFrom(hs, self, other) ==
    LET reset_ == [hs EXCEPT ![self] = afterReset(@)]
        taken == [reset_ EXCEPT ![self].id_ = reset_[other].id_,
                                ![self].executor_ = reset_[other].executor_]
    IN  [taken EXCEPT ![other] = movedFrom(@),
                      ![self].executor_ = IF self = other THEN nullptr
                                          ELSE taken[self].executor_]

\* The application default-constructs a handle.
HandleDefault(self) ==
    /\ ~handles[self].alive
    /\ handles' = [handles EXCEPT ![self] = DefaultHandle]
    /\ api' = NoCall
    /\ UNCHANGED <<udp, factory, provider, reassembly, selector, registry, callbacks, now_,
                   spinning, ran, armed_this_spin, removals>>

\* registerCallback, with the handle it returns kept in `self`; no handle
\* without an id.
registerCallbackHandle(self, is_auto_remove, memory_ok) ==
    /\ ~handles[self].alive
    /\ \E id \in CallbackIds :
          /\ id = nextCallbackId(callbacks)
          /\ callbacks' = appendCallback(callbacks, id, is_auto_remove, memory_ok)
          /\ api' = [NoCall EXCEPT !.op = "register", !.id = id, !.res = memory_ok]
          /\ handles' = IF memory_ok
                        THEN [handles EXCEPT ![self] = [alive |-> TRUE, id_ |-> id,
                                                        executor_ |-> TheExecutor]]
                        ELSE handles
    /\ UNCHANGED <<udp, factory, provider, reassembly, selector, registry, now_, spinning, ran,
                   armed_this_spin, removals>>

\* `Handle(Handle&& other)`: a new handle is made from another.
HandleMove(self, other) ==
    /\ ~handles[self].alive
    /\ handles[other].alive
    /\ handles' = moveFrom([handles EXCEPT ![self] = DefaultHandle], self, other)
    /\ api' = NoCall
    /\ UNCHANGED <<udp, factory, provider, reassembly, selector, registry, callbacks, now_,
                   spinning, ran, armed_this_spin, removals>>

\* `operator=(Handle&& other)`: a handle is assigned from another, or from itself.
HandleMoveAssign(self, other) ==
    /\ handles[self].alive
    /\ handles[other].alive
    /\ LET calls == resetCalls(handles[self], callbacks, removals) IN
       /\ callbacks' = calls.callbacks
       /\ removals' = calls.removals
       /\ api' = calls.api
    /\ handles' = moveFrom(handles, self, other)
    /\ UNCHANGED <<udp, factory, provider, reassembly, selector, registry, now_, spinning, ran,
                   armed_this_spin>>

\* The application resets a handle.
HandleReset(self) ==
    /\ handles[self].alive
    /\ LET calls == resetCalls(handles[self], callbacks, removals) IN
       /\ callbacks' = calls.callbacks
       /\ removals' = calls.removals
       /\ api' = calls.api
    /\ handles' = [handles EXCEPT ![self] = afterReset(@)]
    /\ UNCHANGED <<udp, factory, provider, reassembly, selector, registry, now_, spinning, ran,
                   armed_this_spin>>

\* `~Handle()`: reset, and the handle is gone.
HandleDestructor(self) ==
    /\ handles[self].alive
    /\ LET calls == resetCalls(handles[self], callbacks, removals) IN
       /\ callbacks' = calls.callbacks
       /\ removals' = calls.removals
       /\ api' = calls.api
    /\ handles' = [handles EXCEPT ![self] = NoHandle]
    /\ UNCHANGED <<udp, factory, provider, reassembly, selector, registry, now_, spinning, ran,
                   armed_this_spin>>

\* ------------------------------------------------------- node id selector

\* NodeID::ValueInvalid, the value of a default-constructed NodeID.
ValueInvalid == 255

\* The ids a NodeID can hold: broadcast (0), unicast, or invalid.
NodeIDs == 0 .. Max \cup {ValueInvalid}

\* NodeID::isUnicast.
isUnicast(node_id) == node_id >= 1 /\ node_id <= Max

\* A selector that would start from the lowest id when the preference is not unicast.
firstCandidateLowest(preferred_node_id) ==
    IF isUnicast(preferred_node_id) THEN preferred_node_id ELSE 1

\* `preferred_node_id.isUnicast() ? preferred_node_id.get() : NodeID::Max`
firstCandidate(preferred_node_id) ==
    IF isUnicast(preferred_node_id) THEN preferred_node_id ELSE Max

\* A selector whose way down would stop above the lowest unicast id.
downContinuesAboveOne(candidate) == candidate > 1

\* `while (candidate > 0)`
downContinues(candidate) == candidate > 0

\* No call of the selector.
NoSearch == [at |-> "none", preferred_node_id |-> ValueInvalid, taken |-> {},
             candidate |-> 0, result |-> ValueInvalid]

\* findFreeNodeID is entered: the first candidate is computed.
findFreeNodeID ==
    /\ selector.at = "start"
    /\ selector' = [selector EXCEPT !.at = "up",
                                    !.candidate = firstCandidate(selector.preferred_node_id)]
    /\ UNCHANGED <<udp, factory, provider, reassembly, executor, ownership, registry>>

\* One test of the condition of the loop upwards, with its body if it holds;
\* after the loop the candidate is set to the one below the first.
findFreeNodeIDUp ==
    /\ selector.at = "up"
    /\ selector' =
          IF selector.candidate <= Max
          THEN IF selector.candidate \notin selector.taken
               THEN [selector EXCEPT !.at = "done", !.result = selector.candidate]
               ELSE [selector EXCEPT !.candidate = (@ + 1) % 256]
          ELSE [selector EXCEPT !.at = "down",
                    !.candidate = (firstCandidate(selector.preferred_node_id) + 255) % 256]
    /\ UNCHANGED <<udp, factory, provider, reassembly, executor, ownership, registry>>

\* One test of the condition of the loop downwards, with its body if it holds;
\* after the loop the invalid id is returned.
findFreeNodeIDDown ==
    /\ selector.at = "down"
    /\ selector' =
          IF downContinues(selector.candidate)
          THEN IF selector.candidate \notin selector.taken
               THEN [selector EXCEPT !.at = "done", !.result = selector.candidate]
               ELSE [selector EXCEPT !.candidate = (@ + 255) % 256]
          ELSE [selector EXCEPT !.at = "done", !.result = ValueInvalid]
    /\ UNCHANGED <<udp, factory, provider, reassembly, executor, ownership, registry>>

\* --------------------------------------------------------------- registry

\* Register objects the application may construct.
Registers == {1, 2, 3}

\* Register names, as byte strings.
Names == {<<1>>, <<2>>, <<1, 1>>}

\* Register values.
Values == {0, 1}

\* IRegister::Key::hash, a CRC of the name's bytes: here the sum of the bytes on
\* two bits, under which <<2>> and <<1, 1>> have the same key.
RECURSIVE hash(_)
hash(name) == IF name = <<>> THEN 0 ELSE (Head(name) + hash(Tail(name))) % 4

Keys == 0 .. 3

\* A register object that does not exist.
NoRegister == [alive |-> FALSE, name |-> <<>>, value |-> 0]

\* No call on the registry.
NoRegistryCall == [op |-> "none", reg |-> nullptr, name |-> <<>>, result |-> "none"]

\* Node::isLinked: the register is in the tree.
isLinked(tree, reg) == \E key \in Keys : tree[key] = reg

\* cavl::Tree::search with a factory: the node found under the key and TRUE, or
\* the factory's node, now linked under the key, and FALSE.
search(tree, key, reg) ==
    IF tree[key] # nullptr
    THEN [node |-> tree[key], existing |-> TRUE, tree |-> tree]
    ELSE [node |-> reg, existing |-> FALSE, tree |-> [tree EXCEPT ![key] = reg]]

\* A registry whose append would put the new register in the place of the one
\* linked under its key.
appendSearchReplacing(tree, key, reg) ==
    [node |-> reg, existing |-> tree[key] # nullptr, tree |-> [tree EXCEPT ![key] = reg]]

\* Registry::append: registers_tree_.search by the register's key, the register
\* itself being what the factory returns.
appendSearch(tree, key, reg) == search(tree, key, reg)

\* Registry::findRegisterBy: the register linked under the key of the name.
findRegisterBy(tree, name) == tree[hash(name)]

\* ~IRegister: `if (isLinked()) remove();`
afterDestroy(tree, reg) == [key \in Keys |-> IF tree[key] = reg THEN nullptr ELSE tree[key]]

\* makeRegister: the application constructs a register, not linked yet.
makeRegister(reg, name, value) ==
    /\ ~registers[reg].alive
    /\ registers' = [registers EXCEPT ![reg] = [alive |-> TRUE, name |-> name, value |-> value]]
    /\ registry_call' = [op |-> "make", reg |-> reg, name |-> name, result |-> "none"]
    /\ UNCHANGED <<udp, factory, provider, reassembly, executor, ownership, selector,
                   registers_tree_>>

\* Registry::append(reg), for a register that is not linked.
append(reg) ==
    /\ registers[reg].alive
    /\ ~isLinked(registers_tree_, reg)
    /\ LET register_existing == appendSearch(registers_tree_, hash(registers[reg].name), reg) IN
       /\ registers_tree_' = register_existing.tree
       /\ registry_call' = [op |-> "append", reg |-> reg, name |-> registers[reg].name,
                            result |-> ~register_existing.existing]
    /\ UNCHANGED <<udp, factory, provider, reassembly, executor, ownership, selector, registers>>

\* Registry::route: makeRegister, then append, whose result is dropped.
route(reg, name, value) ==
    /\ ~registers[reg].alive
    /\ registers' = [registers EXCEPT ![reg] = [alive |-> TRUE, name |-> name, value |-> value]]
    /\ LET register_existing == appendSearch(registers_tree_, hash(name), reg) IN
       /\ registers_tree_' = register_existing.tree
       /\ registry_call' = [op |-> "route", reg |-> reg, name |-> name,
                            result |-> ~register_existing.existing]
    /\ UNCHANGED <<udp, factory, provider, reassembly, executor, ownership, selector>>

\* Registry::get(name): the value of the register found, or nothing.
get(name) ==
    /\ LET reg == findRegisterBy(registers_tree_, name) IN
       registry_call' = [op |-> "get", reg |-> reg, name |-> name,
                         result |-> IF reg # nullptr THEN registers[reg].value ELSE "nullopt"]
    /\ UNCHANGED <<udp, factory, provider, reassembly, executor, ownership, selector, registers,
                   registers_tree_>>

\* Registry::set(name, new_value): the register found takes the value (its set
\* reports no error), or SetError::Existence.
set(name, new_value) ==
    /\ LET reg == findRegisterBy(registers_tree_, name) IN
       /\ registry_call' = [op |-> "set", reg |-> reg, name |-> name,
                            result |-> IF reg # nullptr THEN "nullopt" ELSE "Existence"]
       /\ registers' = IF reg # nullptr THEN [registers EXCEPT ![reg].value = new_value]
                       ELSE registers
    /\ UNCHANGED <<udp, factory, provider, reassembly, executor, ownership, selector,
                   registers_tree_>>

\* ~IRegister: the application destroys a register.
IRegisterDestructor(reg) ==
    /\ registers[reg].alive
    /\ registers' = [registers EXCEPT ![reg] = NoRegister]
    /\ registers_tree_' = afterDestroy(registers_tree_, reg)
    /\ registry_call' = [op |-> "destroy", reg |-> reg, name |-> registers[reg].name,
                         result |-> "none"]
    /\ UNCHANGED <<udp, factory, provider, reassembly, executor, ownership, selector>>

\* ------------------------------------------------------- the specification

\* The transport just constructed, with no call in progress.
TransportInit ==
    /\ node_id_ = UDPARD_NODE_ID_UNSET
    /\ svc_rx_sockets_endpoint_ = {}
    /\ transient_error_handler_ = "unset"
    /\ tx_socket_ptr_ = [m \in Media |-> FALSE]
    /\ rx_socket_ptr_ = [m \in Media |-> FALSE]
    /\ udpard_tx_ = [m \in Media |-> <<>>]
    /\ tx_session_ = FALSE
    /\ msg_rx_session_nodes_ = {}
    /\ svc_request_rx_session_nodes_ = {}
    /\ svc_response_rx_session_nodes_ = {}
    /\ rx_sessions = [s \in [kind : Kinds, port : PortIds] |-> 0]
    /\ send_timeout_ = DefaultSendTimeout
    /\ pc = Idle
    /\ ev = NoEv
    /\ blocked = [m \in Media |-> NoItem]
    /\ rx_socket_asked = [m \in Media |-> FALSE]

\* The factory call that made the transport, from two media.
FactoryInit ==
    /\ media_interfaces = <<1, 2>>
    /\ memory = "ok"
    /\ made = make(media_interfaces, memory)

\* A registry provider just made.
ProviderInit ==
    /\ response_timeout_ = DefaultResponseTimeout
    /\ last_timeout = NoTimeout
    /\ requests = <<>>
    /\ responses = <<>>

\* A service RX session with nothing received and nothing to arrive.
ReassemblyInit ==
    /\ wire = <<>>
    /\ arrived = <<>>
    /\ rx_port = <<>>
    /\ last_rx_transfer_ = {}
    /\ accepted = <<>>
    /\ delivered = <<>>

\* An executor with no callback registered.
ExecutorInit ==
    /\ callbacks = [id \in CallbackIds |-> NoCallback]
    /\ now_ = 0
    /\ spinning = FALSE
    /\ ran = <<>>
    /\ armed_this_spin = {}
    /\ api = NoCall

\* The selector is not called.
LibraryInit ==
    /\ selector = NoSearch
    /\ registers = [reg \in Registers |-> NoRegister]
    /\ registers_tree_ = [key \in Keys |-> nullptr]
    /\ registry_call = NoRegistryCall
    /\ handles = [handle \in Handles |-> NoHandle]
    /\ removals = [id \in CallbackIds |-> 0]

Init ==
    /\ TransportInit
    /\ FactoryInit
    /\ ProviderInit
    /\ ReassemblyInit
    /\ ExecutorInit
    /\ LibraryInit

\* The whole transport; every transfer is stamped at time zero.
Next ==
    \/ \E handler \in Handlers : setTransientErrorHandler(handler)
    \/ \E new_node_id \in NodeIdInputs : setLocalNodeId(new_node_id)
    \/ makeMessageTxSession
    \/ makeSession
    \/ \E timestamp \in SendAtStart, priority \in NominalOnly, frame_count \in FrameCounts,
          payload_ok \in BOOLEAN : send(timestamp, priority, frame_count, payload_ok)
    \/ txTransferHandler
    \/ \E now \in RunTimes : run(now)
    \/ withEnsureMediaTxSocket
    \/ runSingleMediaTransmit
    \/ withEnsureMediaRxSocket
    \/ runSingleMediaReceive
    \/ rpcDispatcherReceive
    \/ tryHandleTransient
    \/ return

Spec == Init /\ [][Next]_vars

\* The TX side with transfers of different timestamps, hence deadlines; no local
\* node id is set, so that the RX pump of run finds no socket to make or read.
NextTx ==
    \/ \E handler \in Handlers : setTransientErrorHandler(handler)
    \/ makeMessageTxSession
    \/ makeSession
    \/ \E timestamp \in Times, priority \in NominalOnly, frame_count \in FrameCounts,
          payload_ok \in BOOLEAN : send(timestamp, priority, frame_count, payload_ok)
    \/ txTransferHandler
    \/ \E now \in RunTimes : run(now)
    \/ withEnsureMediaTxSocket
    \/ runSingleMediaTransmit
    \/ withEnsureMediaRxSocket
    \/ tryHandleTransient
    \/ return

SpecTx == Init /\ [][NextTx]_vars

\* The TX side with single-frame transfers of two priorities, stamped at time zero.
NextPrio ==
    \/ \E handler \in Handlers : setTransientErrorHandler(handler)
    \/ makeMessageTxSession
    \/ makeSession
    \/ \E timestamp \in SendAtStart, priority \in FastAndNominal, frame_count \in SingleFrame,
          payload_ok \in BOOLEAN : send(timestamp, priority, frame_count, payload_ok)
    \/ txTransferHandler
    \/ \E now \in RunTimes : run(now)
    \/ withEnsureMediaTxSocket
    \/ runSingleMediaTransmit
    \/ withEnsureMediaRxSocket
    \/ tryHandleTransient
    \/ return

SpecPrio == Init /\ [][NextPrio]_vars

\* The TX side with the send timeout set between sends of single-frame
\* transfers; no handler is installed.
NextTimeout ==
    \/ makeMessageTxSession
    \/ makeSession
    \/ \E timeout \in SendTimeouts : setSendTimeout(timeout)
    \/ \E timestamp \in TwoTimestamps, priority \in NominalOnly, frame_count \in SingleFrame,
          payload_ok \in BOOLEAN : send(timestamp, priority, frame_count, payload_ok)
    \/ txTransferHandler
    \/ \E now \in RunTimes : run(now)
    \/ withEnsureMediaTxSocket
    \/ runSingleMediaTransmit
    \/ withEnsureMediaRxSocket
    \/ tryHandleTransient
    \/ return

SpecTimeout == Init /\ [][NextTimeout]_vars

\* The TX side followed by the transport's destruction; no handler is installed.
NextTeardown ==
    \/ makeMessageTxSession
    \/ makeSession
    \/ \E timestamp \in Times, priority \in NominalOnly, frame_count \in FrameCounts,
          payload_ok \in BOOLEAN : send(timestamp, priority, frame_count, payload_ok)
    \/ txTransferHandler
    \/ \E now \in RunTimes : run(now)
    \/ withEnsureMediaTxSocket
    \/ runSingleMediaTransmit
    \/ withEnsureMediaRxSocket
    \/ tryHandleTransient
    \/ return
    \/ TransportImplDestructor
    \/ flushUdpardTxQueue

SpecTeardown == Init /\ [][NextTeardown]_vars

\* The factory alone, on every span of up to MaxSpan pointers.
InitMake ==
    /\ TransportInit
    /\ ProviderInit
    /\ ReassemblyInit
    /\ ExecutorInit
    /\ LibraryInit
    /\ media_interfaces \in UNION {[1 .. n -> MediaPointers] : n \in 0 .. MaxSpan}
    /\ memory \in MemoryOutcomes
    /\ made = NotCalled

NextMake == makeTransport

SpecMake == InitMake /\ [][NextMake]_vars

\* The registry provider alone: requests arrive, the response timeout is set.
NextProvider ==
    \/ \E timeout \in ResponseTimeouts : setResponseTimeout(timeout)
    \/ \E transfer_id \in TransferIds, priority \in RequestPriorities,
          remote_node_id \in ClientNodeIds, timestamp \in Times :
          onRequest(transfer_id, priority, remote_node_id, timestamp)

SpecProvider == Init /\ [][NextProvider]_vars

\* A service RX session and what arrives for it: a two-frame transfer, then
\* in some runs a single-frame transfer with the other transfer id.
InitReassembly ==
    /\ TransportInit
    /\ FactoryInit
    /\ ProviderInit
    /\ ExecutorInit
    /\ LibraryInit
    /\ \E transfer_id \in WireTransferIds, priority \in WirePriorities,
          remote_node_id \in WireNodeIds, final \in FinalPayloads, more \in BOOLEAN :
          wire = wireFrames(transfer_id, priority, remote_node_id, <<FirstPayload, final>>)
                 \o IF more
                    THEN wireFrames(59 - transfer_id, priority, remote_node_id, <<final>>)
                    ELSE <<>>
    /\ arrived = <<>>
    /\ rx_port = <<>>
    /\ last_rx_transfer_ = {}
    /\ accepted = <<>>
    /\ delivered = <<>>

NextReassembly ==
    \/ runReceiveFrame
    \/ sessionReceive

SpecReassembly == InitReassembly /\ [][NextReassembly]_vars

\* The executor alone, with its callbacks and the application that arms them.
NextExecutor ==
    \/ \E is_auto_remove \in BOOLEAN, memory_ok \in BOOLEAN :
          registerCallback(is_auto_remove, memory_ok)
    \/ \E callback_id \in CallbackIds, time_point \in ScheduleTimes :
          scheduleCallbackByIdAt(callback_id, time_point)
    \/ \E callback_id \in CallbackIds : removeCallbackById(callback_id)
    \/ tick
    \/ spinOnce
    \/ \E body \in Bodies : runCallback(body)
    \/ spinOnceReturns

SpecExecutor == Init /\ [][NextExecutor]_vars

\* The RX side: RX sessions of every kind made and destroyed, the node id set,
\* and run with empty TX queues.
NextRx ==
    \/ \E handler \in Handlers : setTransientErrorHandler(handler)
    \/ \E new_node_id \in TwoNodeIds : setLocalNodeId(new_node_id)
    \/ \E subject_id \in PortIds : makeMessageRxSession(subject_id)
    \/ \E service_id \in PortIds : makeRequestRxSession(service_id)
    \/ \E service_id \in PortIds : makeResponseRxSession(service_id)
    \/ ensureNewNodeFor
    \/ makeAnyRxSession
    \/ \E session \in [kind : Kinds, port : PortIds] : destroyRxSession(session)
    \/ \E now \in SendAtStart : run(now)
    \/ withEnsureMediaTxSocket
    \/ runSingleMediaTransmit
    \/ withEnsureMediaRxSocket
    \/ runSingleMediaReceive
    \/ rpcDispatcherReceive
    \/ tryHandleTransient
    \/ return

SpecRx == Init /\ [][NextRx]_vars

\* The session factories alone: TX and RX sessions are made and destroyed, with
\* no handler installed.
NextSessions ==
    \/ \E new_node_id \in NodeIdInputs : setLocalNodeId(new_node_id)
    \/ makeMessageTxSession
    \/ makeSession
    \/ \E subject_id \in PortIds : makeMessageRxSession(subject_id)
    \/ \E service_id \in PortIds : makeRequestRxSession(service_id)
    \/ \E service_id \in PortIds : makeResponseRxSession(service_id)
    \/ ensureNewNodeFor
    \/ makeAnyRxSession
    \/ \E session \in [kind : Kinds, port : PortIds] : destroyRxSession(session)
    \/ withEnsureMediaTxSocket
    \/ withEnsureMediaRxSocket
    \/ tryHandleTransient
    \/ return

SpecSessions == Init /\ [][NextSessions]_vars

\* The selector alone, called with every preferred id on every set of taken ids.
InitSelector ==
    /\ TransportInit
    /\ FactoryInit
    /\ ProviderInit
    /\ ReassemblyInit
    /\ ExecutorInit
    /\ registers = [reg \in Registers |-> NoRegister]
    /\ registers_tree_ = [key \in Keys |-> nullptr]
    /\ registry_call = NoRegistryCall
    /\ handles = [handle \in Handles |-> NoHandle]
    /\ removals = [id \in CallbackIds |-> 0]
    /\ \E preferred_node_id \in NodeIDs, taken \in SUBSET (1 .. Max) :
          selector = [NoSearch EXCEPT !.at = "start", !.preferred_node_id = preferred_node_id,
                                      !.taken = taken]

NextSelector ==
    \/ findFreeNodeID
    \/ findFreeNodeIDUp
    \/ findFreeNodeIDDown

SpecSelector == InitSelector /\ [][NextSelector]_vars

\* The registry alone, with the registers an application makes, appends, reads,
\* writes and destroys.
NextRegistry ==
    \/ \E reg \in Registers, name \in Names, value \in Values : makeRegister(reg, name, value)
    \/ \E reg \in Registers : append(reg)
    \/ \E reg \in Registers, name \in Names, value \in Values : route(reg, name, value)
    \/ \E name \in Names : get(name)
    \/ \E name \in Names, new_value \in Values : set(name, new_value)
    \/ \E reg \in Registers : IRegisterDestructor(reg)

SpecRegistry == Init /\ [][NextRegistry]_vars

\* The handles of an executor's callbacks: made by registration and by default,
\* moved, assigned, reset and destroyed.
NextHandle ==
    \/ \E self \in Handles : HandleDefault(self)
    \/ \E self \in Handles, is_auto_remove \in BOOLEAN, memory_ok \in BOOLEAN :
          registerCallbackHandle(self, is_auto_remove, memory_ok)
    \/ \E self \in Handles, other \in Handles : HandleMove(self, other)
    \/ \E self \in Handles, other \in Handles : HandleMoveAssign(self, other)
    \/ \E self \in Handles : HandleReset(self)
    \/ \E self \in Handles : HandleDestructor(self)

SpecHandle == Init /\ [][NextHandle]_vars

\* ------------------------------------------------------------- properties

\* The queue of the medium the call in progress is at.
queueAt == udpard_tx_[pc.m]

\* The drain is at a non-empty queue.
atHead == pc.at = "drain" /\ queueAt # <<>>

\* The failure an event carries (None: the event is no failure).
failed(e) ==
    CASE e.res \in {"PlatformError", "MemoryError", "CapacityError", "ArgumentError"} -> e.res
      [] e.res = "null" -> "MemoryError"
      [] OTHER -> None

\* The drain of medium m has come to its end: nothing is queued, or the socket
\* did not accept the head item.
Drained(m) == udpard_tx_[m] = <<>> \/ blocked[m] = Head(udpard_tx_[m])

\* What a drain step does at an expired head item, and what it offers otherwise.
C1_ExpiredStep ==
    /\ (atHead /\ pc.now >= Head(queueAt).deadline) =>
          /\ ev'.ev = "expire"
          /\ ev'.item = Head(queueAt)
          /\ udpard_tx_' = [udpard_tx_ EXCEPT
                               ![pc.m] = SubSeq(@, 2 + Head(@).rest, Len(@))]
          /\ pc' = pc
    /\ (pc.at = "drain" /\ ev'.ev = "send") => pc.now < ev'.item.deadline

\* C1: the drain never offers an expired head item (now >= deadline) to the
\* socket: it removes the item with every frame chained after it, writes
\* nothing to the socket, and goes on with the next head item of the same medium.
C1_ExpiredNeverSent == [][C1_ExpiredStep]_vars

\* A two-frame transfer has expired and both of its frames are gone.
C1_Witness ==
    /\ pc.at = "drain"
    /\ ev.ev = "expire"
    /\ ev.item.rest = 1
    /\ ev.item.deadline <= pc.now
    /\ udpard_tx_[ev.m] = <<>>

\* What a drain step does when the socket send fails, and what consulting the
\* handler does to the queues.
C2_FailureStep ==
    /\ (pc.at = "drain" /\ pc'.at = "handle") =>
          /\ ev'.ev = "send"
          /\ ev'.item = Head(queueAt)
          /\ pc'.report = "MediaTxSocketSend"
          /\ udpard_tx_' = [udpard_tx_ EXCEPT
                               ![pc.m] = SubSeq(@, 2 + Head(@).rest, Len(@))]
    /\ pc.at = "handle" => udpard_tx_' = udpard_tx_

\* C2: when the socket send fails, every remaining frame of the transfer is
\* removed before the transient error handler is consulted, and whatever the
\* handler does leaves the queues as they are: the frames are never offered again.
C2_FailedTransferRemoved == [][C2_FailureStep]_vars

\* The send of the first frame of a two-frame transfer has failed, the handler
\* is about to be consulted, and both frames are gone.
C2_Witness ==
    /\ pc.at = "handle"
    /\ pc.report = "MediaTxSocketSend"
    /\ pc.item.rest = 1
    /\ transient_error_handler_ # "unset"
    /\ udpard_tx_[pc.m] = <<>>

\* What a not accepted send does: the drain of the medium stops, the queue is
\* untouched, no handler is invoked and no failure is raised.
C3_NotAcceptedStep ==
    (pc.at = "drain" /\ ev'.ev = "send" /\ ev'.res = "not_accepted") =>
        /\ udpard_tx_' = udpard_tx_
        /\ pc'.at \notin {"drain", "handle"}
        /\ pc'.fail = None
        /\ pc'.at = "tx_socket" => pc'.m = pc.m + 1

\* The first item the next drain of the medium offers is the one not accepted.
C3_SameHeadStep ==
    /\ C3_NotAcceptedStep
    /\ (pc.at = "drain" /\ ev'.ev = "send" /\ blocked[pc.m] # NoItem) =>
          ev'.item = blocked[pc.m]

\* C3 as written: a not accepted send stops the drain of the medium and leaves
\* the queue untouched, with no handler invoked and no failure; the first item
\* the next drain of the medium offers to the socket is the same item, unless
\* it has expired by then.
C3_SameHeadOffered == [][C3_SameHeadStep]_vars

\* The first item the next drain of the medium offers is the one not accepted,
\* or one of higher priority.
C3_SameOrUrgentStep ==
    /\ C3_NotAcceptedStep
    /\ (pc.at = "drain" /\ ev'.ev = "send" /\ blocked[pc.m] # NoItem) =>
          \/ ev'.item = blocked[pc.m]
          \/ ev'.item.prio < blocked[pc.m].prio

\* C3, amended: a not accepted send stops the drain of the medium and leaves
\* the queue untouched, with no handler invoked and no failure; the first item
\* the next drain of the medium offers to the socket is the same item, unless
\* it has expired by then or a transfer of higher priority has been queued
\* ahead of it in the meantime.
C3_SameOrMoreUrgentOffered == [][C3_SameOrUrgentStep]_vars

\* The drain is about to offer an item that is not the one the socket did not
\* accept when the medium was drained last.
C3_Witness ==
    /\ atHead
    /\ blocked[pc.m] # NoItem
    /\ blocked[pc.m].deadline > pc.now
    /\ Head(queueAt) # blocked[pc.m]
    /\ Head(queueAt).deadline > pc.now

\* C4: with no handler installed, the first transient failure ends the call,
\* which returns that very failure; nothing is done after it, on this medium
\* or a later one.
C4_UnsetReturnsOriginal ==
    transient_error_handler_ = "unset" =>
        /\ failed(ev) # None => pc.at \in {"handle", "return"}
        /\ (pc.at = "return" /\ pc.op \in {"run", "send", "makeMessageTxSession"}) =>
               pc.fail = failed(ev)

\* run returns the failure of a send on the first medium; the second medium
\* still has frames queued.
C4_Witness ==
    /\ transient_error_handler_ = "unset"
    /\ pc.at = "return"
    /\ pc.op = "run"
    /\ pc.fail = "PlatformError"
    /\ ev.ev = "send"
    /\ ev.m = 0
    /\ udpard_tx_[1] # <<>>

\* C5: when the handler answers a failure, the call returns exactly that
\* failure at once: nothing is done after the handler's invocation.
C5_HandlerFailureReturned ==
    (transient_error_handler_ = "escalate" /\ ev.ev = "handler") =>
        /\ pc.at = "return"
        /\ pc.fail = "HandlerFailure"

\* The handler has answered a failure to a send failure on the first medium:
\* run returns it with frames still queued on both media.
C5_Witness ==
    /\ transient_error_handler_ = "escalate"
    /\ ev.ev = "handler"
    /\ ev.res = "MediaTxSocketSend"
    /\ ev.m = 0
    /\ pc.op = "run"
    /\ pc.fail = "HandlerFailure"
    /\ udpard_tx_[0] # <<>>
    /\ udpard_tx_[1] # <<>>

\* C6: while the installed handler answers no failure to every report, run and
\* send return no failure of a single medium (send may still return the
\* failure to make the payload contiguous, which is of no medium).
C6_SwallowedNeverReturned ==
    (transient_error_handler_ = "swallow" /\ pc.at = "return" /\ pc.op \in {"run", "send"}) =>
        \/ pc.fail = None
        \/ (pc.op = "send" /\ ev.ev = "contiguousPayload")

\* send returns no failure although pushing to the last medium's queue failed.
C6_Witness ==
    /\ transient_error_handler_ = "swallow"
    /\ pc.at = "return"
    /\ pc.op = "send"
    /\ pc.fail = None
    /\ ev.ev = "handler"
    /\ ev.res = "UdpardTxPublish"
    /\ ev.m = 1

\* The events of the RX pump.
RxEvents == {"makeRxSocket", "receive", "rpcDispatcherReceive"}
RxReports == {"MediaMakeRxSocket", "MediaRxSocketReceive", "UdpardRxSvcReceive"}
isRxEvent(e) == e.ev \in RxEvents \/ (e.ev = "handler" /\ e.res \in RxReports)

\* C7: a failure the handler has swallowed does not stop the call: after a send
\* failure the drain goes on with the next item of the same medium, and after
\* any other failure the loop goes on with the next medium (or with what
\* follows the loop, after the last medium).
C7_SwallowedGoesOn ==
    (transient_error_handler_ = "swallow" /\ ev.ev = "handler") =>
        IF ev.res = "MediaTxSocketSend"
        THEN pc.at = "drain" /\ pc.m = ev.m
        ELSE IF ev.m + 1 \in Media
        THEN pc.m = ev.m + 1 /\ pc.at \in {"tx_socket", "rx_socket"}
        ELSE \/ pc.at \in {"return", "make"} /\ pc.fail = None
             \/ pc.op = "run" /\ ~isRxEvent(ev) /\ pc.loop = "runMediaReceive"
                              /\ pc.at = "rx_socket" /\ pc.m = 0

\* A send failure on the first medium has been swallowed, and the drain is at
\* the next item of that medium.
C7_Witness ==
    /\ transient_error_handler_ = "swallow"
    /\ ev.ev = "handler"
    /\ ev.res = "MediaTxSocketSend"
    /\ ev.m = 0
    /\ atHead
    /\ pc.m = 0

\* C8: run makes or reads no RX socket before the TX drain of every medium has
\* come to its end, and none at all when the TX drain has returned a failure.
C8_TxBeforeRx ==
    isRxEvent(ev) =>
        /\ pc.op = "run"
        /\ \A m \in Media : Drained(m)

\* run reads an RX socket while frames the TX socket did not accept are queued.
C8_Witness ==
    /\ ev.ev = "receive"
    /\ \E m \in Media : udpard_tx_[m] # <<>>

\* run has returned no failure.
runReturnedNoFailure == pc.at = "return" /\ pc.op = "run" /\ pc.fail = None

\* C9 as written: after run(now) has returned without failure, no medium's TX
\* queue holds an item with deadline <= now.
C9_NoExpiredItemLeft ==
    runReturnedNoFailure =>
        \A m \in Media : \A i \in 1 .. Len(udpard_tx_[m]) : udpard_tx_[m][i].deadline > pc.now

\* C9, amended: after run(now) has returned without failure, every medium's TX
\* queue is empty or has at its head an item that has not expired and that the
\* socket did not accept; items behind such a head may have expired.
C9_NoExpiredHeadLeft ==
    runReturnedNoFailure =>
        \A m \in Media :
            \/ udpard_tx_[m] = <<>>
            \/ /\ Head(udpard_tx_[m]).deadline > pc.now
               /\ blocked[m] = Head(udpard_tx_[m])

\* run has returned without failure and an expired item is left behind the head
\* of a queue.
C9_Witness ==
    /\ runReturnedNoFailure
    /\ \E m \in Media :
          /\ Len(udpard_tx_[m]) = 2
          /\ udpard_tx_[m][2].deadline <= pc.now

\* C10: within a medium the socket is offered the head of the queue, so frames
\* are accepted in queue order; the media are drained in increasing index.
C10_QueueAndMediaOrder ==
    /\ (ev.ev = "send" /\ ev.res = "not_accepted") => Head(udpard_tx_[ev.m]) = ev.item
    /\ (ev.ev = "send" /\ ev.res = "accepted" /\ ev.item.rest > 0) =>
          /\ udpard_tx_[ev.m] # <<>>
          /\ Head(udpard_tx_[ev.m]) = [ev.item EXCEPT !.rest = @ - 1]
    /\ (ev.ev \in {"send", "expire"} /\ pc.at = "drain") => pc.m = ev.m
    /\ pc.loop = "runMediaTransmit" => \A m \in Media : m < pc.m => Drained(m)

\* The first frame of a two-frame transfer has been accepted on the second
\* medium, after the drain of the first medium ended on a frame not accepted.
C10_Witness ==
    /\ ev.ev = "send"
    /\ ev.res = "accepted"
    /\ ev.item.rest = 1
    /\ ev.m = 1
    /\ pc.at = "drain"
    /\ udpard_tx_[0] # <<>>

\* The frames of the transfer whose first frame is `first` are the last ones of
\* the TX queue of medium m.
transferQueuedLast(m, first) ==
    LET q == udpard_tx_[m] IN
    /\ Len(q) > first.rest
    /\ \A k \in 0 .. first.rest :
          q[Len(q) - first.rest + k] = [first EXCEPT !.rest = first.rest - k]

\* C11: a session send pushes the transfer to the TX queue of every medium, in
\* media index order, and never calls a socket's send; when it returns no
\* failure, and none was swallowed on the way, every medium's queue holds the
\* transfer.
C11_SendQueuesOnEveryMedium ==
    /\ pc.op = "send" => ev.ev \in {"none", "makeTxSocket", "txPush", "handler",
                                    "contiguousPayload"}
    /\ (ev.ev = "txPush" /\ ev.res = "ok") =>
          /\ transferQueuedLast(ev.m, ev.item)
          /\ transient_error_handler_ # "swallow" =>
                \A m \in Media : m < ev.m => transferQueuedLast(m, ev.item)
    /\ (pc.at = "return" /\ pc.op = "send" /\ pc.fail = None
          /\ transient_error_handler_ # "swallow") =>
          /\ ev.ev = "txPush"
          /\ ev.res = "ok"
          /\ \A m \in Media : m <= ev.m /\ transferQueuedLast(m, ev.item)

\* send has returned no failure and the two frames of the transfer are the
\* whole of both media's queues.
C11_Witness ==
    /\ pc.at = "return"
    /\ pc.op = "send"
    /\ pc.fail = None
    /\ transient_error_handler_ = "unset"
    /\ ev.item.rest = 1
    /\ \A m \in Media : Len(udpard_tx_[m]) = 2 /\ udpard_tx_[m][1] = ev.item

\* Every RX session the application can hold.
Sessions == [kind : Kinds, port : PortIds]

\* The session tree of kind s.kind has a node keyed s.port.
hasNode(s) == s.port \in nodesOf(s.kind)

\* C12: whatever RX sessions were made and destroyed, the tree of a kind holds
\* a node for a port exactly if one live RX session of that kind is on that
\* port, and no two live RX sessions share kind and port (a factory between
\* its node insertion and the session's make aside).
C12_OneNodePerLiveSession ==
    pc.at # "session_make" =>
        \A s \in Sessions :
            /\ rx_sessions[s] <= 1
            /\ hasNode(s) <=> rx_sessions[s] = 1

\* A message session on port 5 has just been destroyed while request sessions
\* on ports 5 and 6 and a response session on port 5 live on.
C12_Witness ==
    /\ ev.ev = "onSessionEvent"
    /\ ev.session = [kind |-> "Message", port |-> 5]
    /\ msg_rx_session_nodes_ = {}
    /\ svc_request_rx_session_nodes_ = {5, 6}
    /\ svc_response_rx_session_nodes_ = {5}
    /\ rx_sessions[[kind |-> "Request", port |-> 6]] = 1

\* C13: making an RX session of a kind on a port that has a live one of that
\* kind returns the duplicate failure, makes no session and leaves the live
\* session and its node; with no live session on the port (none yet, or
\* destroyed) the factory is not rejected as a duplicate.
C13_DuplicateRejected ==
    ev.ev = "ensureNewNodeFor" =>
        IF ev.res = "AlreadyExistsError"
        THEN /\ pc.at = "return"
             /\ pc.fail = "AlreadyExistsError"
             /\ rx_sessions[ev.session] = 1
             /\ hasNode(ev.session)
        ELSE rx_sessions[ev.session] = 0

\* makeResponseRxSession on port 6 has been rejected: a response session
\* lives on port 6.
C13_Witness ==
    /\ ev.ev = "ensureNewNodeFor"
    /\ ev.res = "AlreadyExistsError"
    /\ pc.op = "makeResponseRxSession"
    /\ pc.at = "return"
    /\ ev.session.port = 6
    /\ node_id_ = 7

\* One step of an RX session factory: a failing session make takes the node
\* out again and returns, and the socket loop before it leaves the trees alone.
C14_RollbackStep ==
    /\ (pc.at = "session_make" /\ pc'.fail # None) =>
          /\ pc'.at = "return"
          /\ rx_sessions' = rx_sessions
          /\ \A k \in Kinds :
                nodesOf(k)' = IF k = pc.session.kind
                              THEN nodesOf(k) \ {pc.session.port} ELSE nodesOf(k)
    /\ (pc.at = "session_make" /\ pc'.fail = None) =>
          \A k \in Kinds : nodesOf(k)' = nodesOf(k)
    /\ pc.loop = "ensureMediaRxSockets" /\ pc.at \in {"rx_socket", "handle"} =>
          \A k \in Kinds : nodesOf(k)' = nodesOf(k)

\* C14: an RX session factory whose session make fails (no memory, port id out
\* of range) removes the node it inserted before it returns, so that the tree
\* is as it was before the call; a factory that fails at RX socket creation
\* does not touch the tree.
C14_FailedMakeRollsBack == [][C14_RollbackStep]_vars

\* makeRequestRxSession on port 5 has failed for lack of memory; the node of
\* the request session on port 6 is all the tree holds, as before the call.
C14_Witness ==
    /\ ev.ev = "rxSessionMake"
    /\ ev.res = "MemoryError"
    /\ pc.at = "return"
    /\ pc.fail = "MemoryError"
    /\ ev.session = [kind |-> "Request", port |-> 5]
    /\ svc_request_rx_session_nodes_ = {6}

C16_NodeIdStep ==
    /\ getLocalNodeId(node_id_) # {} =>
          /\ node_id_' = node_id_
          /\ svc_rx_sockets_endpoint_' = svc_rx_sockets_endpoint_
    /\ (pc.at = "idle" /\ pc'.op = "setLocalNodeId") =>
          LET n == pc'.new_node_id IN
          CASE n > UDPARD_NODE_ID_MAX ->
                  /\ pc'.fail = "ArgumentError"
                  /\ node_id_' = node_id_
            [] getLocalNodeId(node_id_) = {} ->
                  /\ pc'.fail = None
                  /\ getLocalNodeId(node_id_') = {n}
            [] node_id_ = n -> pc'.fail = None
            [] OTHER -> pc'.fail = "ArgumentError"
    /\ (getLocalNodeId(node_id_) = {} /\ getLocalNodeId(node_id_') # {}) =>
          /\ pc'.op = "setLocalNodeId"
          /\ pc'.fail = None

\* C16: the local node id is write-once: getLocalNodeId gives nothing until a
\* setLocalNodeId with an id in range returns no failure, and that id from
\* then on; setting the same id again returns no failure, another id returns
\* ArgumentError, and neither changes the node id or the RX endpoint.
C16_NodeIdWriteOnce == [][C16_NodeIdStep]_vars

\* Node id 7 is set, RX sockets are there, and setLocalNodeId(8) has been refused.
C16_Witness ==
    /\ pc.at = "return"
    /\ pc.op = "setLocalNodeId"
    /\ pc.new_node_id = 8
    /\ pc.fail = "ArgumentError"
    /\ getLocalNodeId(node_id_) = {7}
    /\ \A m \in Media : rx_socket_ptr_[m]

\* C17: a medium has an RX socket only if the node id and the RX endpoint
\* derived from it are set, and no RX socket is made or read by any call
\* while the node id is unset.
C17_NoRxWithoutNodeId ==
    /\ \A m \in Media :
          rx_socket_ptr_[m] =>
              /\ node_id_ <= UDPARD_NODE_ID_MAX
              /\ svc_rx_sockets_endpoint_ = {[service_node_id |-> node_id_]}
    /\ node_id_ = UDPARD_NODE_ID_UNSET =>
          /\ svc_rx_sockets_endpoint_ = {}
          /\ ev.ev \notin {"makeRxSocket", "receive", "rpcDispatcherReceive"}
          /\ pc.at \notin {"receive", "dispatch"}

\* makeResponseRxSession, called with no node id set, has passed every medium
\* without a socket call and is about to make the session.
C17_Witness ==
    /\ node_id_ = UDPARD_NODE_ID_UNSET
    /\ pc.op = "makeResponseRxSession"
    /\ pc.at = "ensure_node"
    /\ ev = NoEv
    /\ \A m \in Media : ~rx_socket_ptr_[m]

\* A step that calls makeRxSocket for the medium the call is at.
makesRxSocket == pc.at = "rx_socket" /\ ev'.ev = "makeRxSocket"

\* makeRxSocket is called for a medium it was never called for before.
C18_OnceStep == makesRxSocket => ~rx_socket_asked[pc.m]

\* C18 as stated: once the node id is set, makeRxSocket is called exactly once
\* per medium, however many calls of run follow.
C18_CalledExactlyOnce == [][C18_OnceStep]_vars

\* makeRxSocket is called only for a medium without an RX socket, with the
\* endpoint of the node id; an RX socket came from such a call and stays.
C18_UntilMadeStep ==
    /\ makesRxSocket =>
          /\ ~rx_socket_ptr_[pc.m]
          /\ node_id_ <= UDPARD_NODE_ID_MAX
          /\ svc_rx_sockets_endpoint_ = {[service_node_id |-> node_id_]}
          /\ rx_socket_ptr_'[pc.m] = (ev'.res = "socket")
    /\ \A m \in Media :
          rx_socket_ptr_[m] => rx_socket_asked[m] /\ rx_socket_ptr_'[m]

\* C18: once the node id is set, makeRxSocket is called for a medium, with the
\* endpoint derived from the node id, until one call has given a socket and
\* never after: exactly one call per medium succeeds, and a call that failed
\* is repeated by a later run or RX session factory.
C18_CalledUntilMade == [][C18_UntilMadeStep]_vars

\* A run makes the RX socket of medium 0 at a call of makeRxSocket that is not
\* the first for that medium: an earlier run went past medium 0 and asked in
\* vain for the socket of medium 1.
C18_Witness ==
    /\ ev.ev = "makeRxSocket"
    /\ ev.res = "socket"
    /\ ev.m = 0
    /\ pc.op = "run"
    /\ rx_socket_ptr_[0]
    /\ ~rx_socket_ptr_[1]
    /\ rx_socket_asked[1]

\* One step seen from the sockets.
C19_SocketStep ==
    /\ \A m \in Media :
          /\ tx_socket_ptr_[m] => tx_socket_ptr_'[m]
          /\ rx_socket_ptr_[m] => rx_socket_ptr_'[m]
    /\ pc.at = "tx_socket" =>
          IF tx_socket_ptr_[pc.m]
          THEN ev'.ev # "makeTxSocket"
          ELSE /\ ev'.ev = "makeTxSocket"
               /\ ev'.m = pc.m
               /\ tx_socket_ptr_'[pc.m] = (ev'.res = "socket")
               /\ pc'.at # "tx_socket" \/ pc'.m # pc.m
    /\ pc.at = "rx_socket" =>
          IF rx_socket_ptr_[pc.m] \/ svc_rx_sockets_endpoint_ = {}
          THEN ev'.ev # "makeRxSocket"
          ELSE /\ ev'.ev = "makeRxSocket"
               /\ ev'.m = pc.m
               /\ rx_socket_ptr_'[pc.m] = (ev'.res = "socket")
               /\ pc'.at # "rx_socket" \/ pc'.m # pc.m
    /\ (pc.at \notin {"tx_socket", "rx_socket"}
          /\ ev'.ev \in {"makeTxSocket", "makeRxSocket"}) => ev' = ev

\* C19: a call that reaches a medium without TX socket (or without RX socket,
\* the endpoint being set) asks the factory once, and a socket given stays:
\* no later step takes it away and the factory is not asked again for that
\* medium.
C19_LazySockets == [][C19_SocketStep]_vars

\* A run has found the TX socket of medium 0 in place and now makes the one of
\* medium 1, which an earlier call failed to make.
C19_Witness ==
    /\ pc.op = "run"
    /\ ev.ev = "makeTxSocket"
    /\ ev.res = "socket"
    /\ ev.m = 1
    /\ tx_socket_ptr_[0]
    /\ tx_socket_ptr_[1]
    /\ tx_session_

\* One step seen from a received datagram.
C20_DatagramStep ==
    /\ (pc.at = "receive" /\ ev'.res = "datagram") =>
          /\ pc'.at = "dispatch"
          /\ pc'.m = pc.m
          /\ ev'.m = pc.m
    /\ pc.at = "dispatch" =>
          /\ ev.ev = "receive"
          /\ ev.res = "datagram"
          /\ ev'.ev = "rpcDispatcherReceive"
          /\ ev'.m = ev.m
          /\ ev'.timestamp = ev.timestamp
          /\ pc'.at # "dispatch"
    /\ (pc.at # "dispatch" /\ ev'.ev = "rpcDispatcherReceive") => ev' = ev

\* C20: every datagram an RX socket's receive returns goes to the framer's
\* dispatcher in the next step of the run, with its reception timestamp and
\* the index of its medium, whatever the dispatcher answers; the dispatcher is
\* called for nothing else, and once per datagram.
C20_DatagramDispatchedOnce == [][C20_DatagramStep]_vars

\* The datagram received on medium 1 at time 1 has gone to the dispatcher,
\* which answered with an error.
C20_Witness ==
    /\ ev.ev = "rpcDispatcherReceive"
    /\ ev.res = "MemoryError"
    /\ ev.m = 1
    /\ ev.timestamp = 1
    /\ pc.at = "handle"

\* The RX pump of run leaves a medium it has read from only when receive has
\* returned nothing (or a failure has been handed to the handler).
C21_UntilNoneStep ==
    (pc.loop = "runMediaReceive" /\ pc.at \in {"receive", "dispatch"}
        /\ pc'.at \in {"rx_socket", "return"}) =>
        /\ ev'.ev = "receive"
        /\ ev'.res = "nothing"

\* C21 as stated: within one run the transport keeps calling receive on a
\* medium until receive returns none.
C21_ReceivesUntilNone == [][C21_UntilNoneStep]_vars

\* The RX pump reads a medium from its socket step only, reaches that step for
\* a medium from the medium before it, and hands over the datagram it got.
C21_OneReceiveStep ==
    /\ pc'.at = "receive" => pc.at = "rx_socket" /\ pc'.m = pc.m
    /\ (pc.loop = "runMediaReceive" /\ pc'.at = "rx_socket") => pc'.m = pc.m + 1
    /\ (pc.at = "receive" /\ ev'.res = "datagram") => pc'.at = "dispatch" /\ pc'.m = pc.m
    /\ pc.at = "dispatch" => ev'.ev = "rpcDispatcherReceive" /\ pc'.at # "receive"

\* C21: on each run the transport calls receive once for each medium that has
\* an RX socket and hands the datagram it yields, if any, to the framer; what
\* else the socket holds waits for the next run.
C21_OneReceivePerMedium == [][C21_OneReceiveStep]_vars

\* The run has dispatched one datagram of medium 0 and is at medium 1, without
\* a second receive on medium 0.
C21_Witness ==
    /\ pc.op = "run"
    /\ pc.at = "rx_socket"
    /\ pc.m = 1
    /\ ev.ev = "rpcDispatcherReceive"
    /\ ev.res = "incomplete"
    /\ ev.m = 0

\* One step seen from the send timeout: only setSendTimeout changes it, to the
\* value given; a push carries timestamp + timeout as its deadline; and a head
\* item whose deadline is not after the run's time is dropped, not sent.
C24_TimeoutStep ==
    /\ ~tx_session_ => send_timeout_ = DefaultSendTimeout
    /\ send_timeout_' # send_timeout_ => pc'.op = "setSendTimeout"
    /\ (pc.at = "idle" /\ pc'.op = "setSendTimeout") => send_timeout_' = pc'.timeout
    /\ pc.at = "push" =>
          /\ ev'.ev = "txPush"
          /\ ev'.item.deadline = pc.timestamp + send_timeout_
          /\ ev'.res = "ok" =>
                \E i \in 1 .. Len(udpard_tx_'[pc.m]) :
                    udpard_tx_'[pc.m][i].deadline = pc.timestamp + send_timeout_
    /\ (pc.at = "drain" /\ udpard_tx_[pc.m] # <<>>
          /\ Head(udpard_tx_[pc.m]).deadline <= pc.now) =>
          /\ ev'.ev = "expire"
          /\ Len(udpard_tx_'[pc.m]) < Len(udpard_tx_[pc.m])

\* C24: the deadline a TX session gives to the framer is metadata.timestamp
\* plus the session's send timeout, the default until setSendTimeout is
\* called and the last value set afterwards, whatever the current time; a
\* transfer whose timestamp plus timeout is not after the time of the next
\* drain is dropped there as expired.
C24_DeadlineFromTimestamp == [][C24_TimeoutStep]_vars

\* With the timeout set to zero, a transfer stamped 1 has been dropped by a
\* run at time 2 as expired.
C24_Witness ==
    /\ send_timeout_ = 0
    /\ ev.ev = "expire"
    /\ ev.item.deadline = 1
    /\ pc.now = 2
    /\ ev.m = 1

\* ------------------------------------------------------------------- C25

\* The events of a socket send, of a report to the handler and of new work.
TeardownForbidden ==
    {"send", "expire", "handler", "txPush", "makeTxSocket", "makeRxSocket", "receive"}

C25_TeardownStep ==
    /\ pc.at = "flush" =>
          /\ ev'.ev \notin TeardownForbidden
          /\ udpard_tx_[pc.m] # <<>> =>
                /\ ev'.ev = "udpardTxFree"
                /\ ev'.item = Head(udpard_tx_[pc.m])
                /\ udpard_tx_'[pc.m] = Tail(udpard_tx_[pc.m])
          /\ \A m \in Media \ {pc.m} : udpard_tx_'[m] = udpard_tx_[m]
          /\ tx_socket_ptr_' = tx_socket_ptr_
          /\ transient_error_handler_' = transient_error_handler_
    /\ pc'.at = "destroyed" => \A m \in Media : udpard_tx_'[m] = <<>>

\* C25: the teardown of the transport pops and frees every item left in every
\* medium's TX queue, one at a time from the front, until all the queues are
\* empty; no item is offered to a socket and no report goes to the handler.
C25_TeardownFreesQueues == [][C25_TeardownStep]_vars

\* The teardown has just freed the last item of the second medium, after the
\* first medium's items.
C25_Witness ==
    /\ pc.at = "flush"
    /\ pc.m = 1
    /\ ev.ev = "udpardTxFree"
    /\ ev.item.rest = 0
    /\ ev.item.deadline = MaxTime + DefaultSendTimeout
    /\ \A m \in Media : udpard_tx_[m] = <<>>

\* ------------------------------------------------------------------- C26

\* The non-null pointers of the span given to the factory, in the span's order.
nonNullMedia == SelectSeq(media_interfaces, LAMBDA media_ptr : media_ptr # nullptr)

\* C26: the factory makes a transport only when the span holds between one and
\* three non-null media; with none or with more than three it returns
\* ArgumentError; a failure leaves no transport; a transport made holds exactly
\* the non-null media in the span's order, each with an empty TX queue of its
\* own and no socket, and its node id is unset.
C26_MakeValidatesMedia ==
    made # NotCalled =>
        /\ made.failure = None => Len(nonNullMedia) \in 1 .. UDPARD_NETWORK_INTERFACE_COUNT_MAX
        /\ Len(nonNullMedia) \notin 1 .. UDPARD_NETWORK_INTERFACE_COUNT_MAX =>
              made.failure = "ArgumentError"
        /\ made.failure # None <=> made.transport = NoTransport
        /\ made.failure = None =>
              /\ made.transport.exists
              /\ made.transport.node_id_ = UDPARD_NODE_ID_UNSET
              /\ Len(made.transport.media_array_) = Len(nonNullMedia)
              /\ \A i \in 1 .. Len(nonNullMedia) :
                    /\ made.transport.media_array_[i].interface = nonNullMedia[i]
                    /\ made.transport.media_array_[i].index = i - 1
                    /\ made.transport.media_array_[i].udpard_tx = <<>>
                    /\ ~made.transport.media_array_[i].rx_socket_ptr
                    /\ ~made.transport.media_array_[i].tx_socket_ptr

\* A transport made from a span of four pointers, one of them null.
C26_Witness ==
    /\ media_interfaces = <<1, nullptr, 2, 1>>
    /\ made.failure = None
    /\ Len(made.transport.media_array_) = 3

\* ------------------------------------------------------------------- C23

\* The timeout in force when `request` arrived.
timeoutInForce(request) ==
    IF request.timeout_given = NoTimeout THEN DefaultResponseTimeout
    ELSE request.timeout_given

RECURSIVE payloadBefore(_, _)
\* The payload of the frames of the transfer that ends at arrived[k], in order.
payloadBefore(k, transfer_id) ==
    IF k = 0 \/ arrived[k].transfer_id # transfer_id THEN <<>>
    ELSE payloadBefore(k - 1, transfer_id) \o arrived[k].payload

\* The transfer completed by the final frame arrived[k].
transferEndingAt(k) ==
    LET whole == payloadBefore(k, arrived[k].transfer_id)
    IN  [transfer_id |-> arrived[k].transfer_id, priority |-> arrived[k].priority,
         remote_node_id |-> arrived[k].remote_node_id,
         payload |-> [i \in 1 .. (IF Len(whole) < Extent THEN Len(whole) ELSE Extent) |->
                         whole[i]]]

\* The positions of the final frames among the frames arrived.
finalFrames == {k \in 1 .. Len(arrived) : arrived[k].eot}

\* C22: the session is handed nothing while only the first frame of a transfer
\* has arrived, and exactly one transfer per final frame: the payloads of the
\* transfer's frames in frame order, cut to the extent, with the transfer id,
\* priority and remote node id of the frames; the session's receive returns
\* nothing unless a transfer was handed over and returns no transfer twice.
C22_TwoFrameTransferOnce ==
    /\ Len(accepted) = Cardinality(finalFrames)
    /\ \A i \in 1 .. Len(accepted) :
          \E k \in finalFrames :
              /\ Cardinality({j \in finalFrames : j <= k}) = i
              /\ accepted[i] = transferEndingAt(k)
    /\ finalFrames = {} => (last_rx_transfer_ = {} /\ delivered = <<>>)
    /\ Len(delivered) + Cardinality(last_rx_transfer_) <= Len(accepted)
    /\ \A i \in 1 .. Len(delivered) :
          /\ \E j \in 1 .. Len(accepted) : delivered[i] = accepted[j]
          /\ \A j \in 1 .. Len(delivered) : delivered[i] = delivered[j] => i = j
    /\ \A t \in last_rx_transfer_ :
          /\ t = accepted[Len(accepted)]
          /\ \A i \in 1 .. Len(delivered) : delivered[i] # t

\* Both frames of a four-byte transfer have arrived and the session's receive
\* has returned it once, cut to three bytes, and then nothing.
C22_Witness ==
    /\ Len(arrived) = 2
    /\ arrived[2].payload = <<3, 4>>
    /\ delivered = <<[transfer_id |-> 30, priority |-> 0, remote_node_id |-> 19,
                      payload |-> <<1, 2, 3>>]>>
    /\ last_rx_transfer_ = {}
    /\ wire = <<>>

\* ------------------------------------------------------------------- C27

\* The step runs one callback.
runsOne == Len(ran') = Len(ran) + 1

\* The callback the step runs, as logged.
justRan == ran'[Len(ran')]

C27_SpinStep ==
    /\ runsOne =>
          /\ callbacks[justRan.id].state = "live"
          /\ callbacks[justRan.id].armed # Unarmed
          /\ justRan.time = callbacks[justRan.id].armed
          /\ justRan.time <= now_
          /\ \A i \in 1 .. Len(ran) :
                \/ ran[i].time < justRan.time
                \/ (ran[i].time = justRan.time /\ ran[i].id < justRan.id)
          /\ \/ callbacks'[justRan.id].armed = Unarmed
             \/ (api'.op = "schedule" /\ api'.id = justRan.id)
    /\ (spinning /\ ~spinning') =>
          \A id \in CallbackIds :
              (callbacks[id].state = "live" /\ callbacks[id].armed # Unarmed
               /\ callbacks[id].armed <= now_) => id \in armed_this_spin

\* C27: spin_once runs only callbacks that are registered and armed for a time
\* not after now, each once for its arming, in non-decreasing order of scheduled
\* time and, for equal times, in registration order; it returns only when every
\* callback armed before it for a time not after now has run.
C27_DueRunInOrder == [][C27_SpinStep]_vars

\* A spin_once has run the callback registered second before the one registered
\* first, which was armed for a later time.
C27_Witness ==
    /\ ~spinning
    /\ Len(ran) = 2
    /\ ran[1].id = 2 /\ ran[1].time = 0
    /\ ran[2].id = 1 /\ ran[2].time = 1

\* ------------------------------------------------------------------- C28

C28_RearmStep ==
    /\ \A id \in CallbackIds : callbacks'[id].armed = callbacks'[id].given
    /\ runsOne =>
          /\ justRan.time = justRan.given
          /\ justRan.given <= now_
          /\ \A i \in 1 .. Len(ran) : ran[i].id # justRan.id

\* C28: a callback is armed for the time given by the last call of schedule,
\* whatever it was armed for before; it runs for that arming once, when that
\* time has come, and not at an earlier time the last call has replaced.
C28_LastScheduleWins == [][C28_RearmStep]_vars

\* A callback armed for time 0 and armed again for time 1 before it ran has run
\* at time 1: `replaced` marks an arming that replaced an earlier time.
C28_Witness ==
    /\ Len(ran) = 1
    /\ ran[1].replaced
    /\ ran[1].time = 1
    /\ now_ = 1

\* ------------------------------------------------------------------- C29

C29_CancelStep ==
    /\ runsOne => callbacks[justRan.id].state = "live"
    /\ \A id \in CallbackIds :
          callbacks[id].state = "removed" => callbacks'[id].state = "removed"
    /\ api'.op \in {"schedule", "remove"} =>
          /\ callbacks[api'.id].state = "removed" => ~api'.res
          /\ (api'.op = "remove" /\ api'.res) => callbacks'[api'.id].state = "removed"

\* C29: a callback that was removed, by the application or by another callback
\* while spin_once runs, stays removed and is not run by this spin_once or a
\* later one, whatever it was armed for; schedule and remove on its id return
\* false from then on.
C29_RemovedNeverRuns == [][C29_CancelStep]_vars

\* While spin_once runs, the callback that ran first has removed another one
\* that was due in this spin_once.
C29_Witness ==
    /\ spinning
    /\ Len(ran) = 1
    /\ api.op = "remove" /\ api.inside /\ api.due /\ api.res
    /\ api.id # ran[1].id
    /\ callbacks[api.id].state = "removed"

\* ------------------------------------------------------------------- C30

C30_RearmStep ==
    /\ runsOne =>
          /\ justRan.id \notin armed_this_spin
          /\ \A i \in 1 .. Len(ran) : ran[i].id # justRan.id
          /\ justRan.time <= now_
          /\ (api'.op = "schedule" /\ api'.res) =>
                /\ api'.id \in armed_this_spin'
                /\ callbacks'[api'.id].armed = callbacks'[api'.id].given
    /\ Len(ran') <= Cardinality(CallbackIds)

\* C30: a callback armed while spin_once runs, by itself or by another
\* callback, is not run by that spin_once, whatever time it was armed for; a
\* spin_once runs no callback twice, hence no more callbacks than there are and
\* it comes to an end; a callback runs only when the time it was armed for has
\* come, so one that re-arms itself a period after now runs next a period later.
C30_RearmedRunsNextSpin == [][C30_RearmStep]_vars

\* A spin_once has returned after each of the two callbacks ran once and
\* re-armed itself for now.
C30_Witness ==
    /\ ~spinning
    /\ Len(ran) = 2
    /\ armed_this_spin = CallbackIds
    /\ \A id \in CallbackIds : callbacks[id].armed = now_

\* ------------------------------------------------------------------- C32

C32_OutOfRangeStep ==
    /\ (pc.at = "idle" /\ pc'.op = "setLocalNodeId"
        /\ pc'.new_node_id > UDPARD_NODE_ID_MAX) =>
          /\ pc'.fail = "ArgumentError"
          /\ node_id_' = node_id_
          /\ svc_rx_sockets_endpoint_' = svc_rx_sockets_endpoint_
    /\ node_id_ # UDPARD_NODE_ID_UNSET => node_id_' # UDPARD_NODE_ID_UNSET

\* C32: setLocalNodeId with an id above the protocol maximum, the unset value
\* included, returns ArgumentError whether a node id is set or not, and leaves
\* the node id and the RX endpoint as they were; a node id once set is never
\* unset again.
C32_OutOfRangeRejected == [][C32_OutOfRangeStep]_vars

\* With no node id set, setLocalNodeId of the unset value has been refused.
C32_Witness ==
    /\ pc.at = "return"
    /\ pc.op = "setLocalNodeId"
    /\ pc.new_node_id = UDPARD_NODE_ID_UNSET
    /\ pc.fail = "ArgumentError"
    /\ node_id_ = UDPARD_NODE_ID_UNSET
    /\ svc_rx_sockets_endpoint_ = {}

\* ------------------------------------------------------------------- C40

C40_TreeStep ==
    LET before == [k \in Kinds |->
                      CASE k = "Message" -> msg_rx_session_nodes_
                        [] k = "Request" -> svc_request_rx_session_nodes_
                        [] OTHER -> svc_response_rx_session_nodes_]
        after == [k \in Kinds |->
                     CASE k = "Message" -> msg_rx_session_nodes_'
                       [] k = "Request" -> svc_request_rx_session_nodes_'
                       [] OTHER -> svc_response_rx_session_nodes_']
    IN  /\ Cardinality({k \in Kinds : after[k] # before[k]}) <= 1
        /\ pc.at = "ensure_node" =>
              /\ ev'.res = "AlreadyExistsError" <=> pc.session.port \in before[pc.session.kind]
              /\ \A k \in Kinds \ {pc.session.kind} : after[k] = before[k]
              /\ after[pc.session.kind] \ {pc.session.port}
                     = before[pc.session.kind] \ {pc.session.port}
        /\ (pc.at = "idle" /\ ev'.ev = "onSessionEvent") =>
              /\ after[ev'.session.kind] = before[ev'.session.kind] \ {ev'.session.port}
              /\ \A k \in Kinds \ {ev'.session.kind} : after[k] = before[k]

\* C40: the message, request and response RX sessions have a tree each: a
\* factory is refused as a duplicate exactly when the tree of its own kind has
\* a node for the port, whatever the other two trees hold, and changes no tree
\* but its own, at its port alone; a Destroyed event removes the node of its
\* kind and port and leaves the other trees and ports as they were.
C40_TreesIndependent == [][C40_TreeStep]_vars

\* Sessions of the three kinds lived on port 5; the request session has just
\* been destroyed and the other two live on.
C40_Witness ==
    /\ ev.ev = "onSessionEvent"
    /\ ev.session = [kind |-> "Request", port |-> 5]
    /\ msg_rx_session_nodes_ = {5}
    /\ svc_request_rx_session_nodes_ = {}
    /\ svc_response_rx_session_nodes_ = {5}
    /\ rx_sessions[[kind |-> "Message", port |-> 5]] = 1
    /\ rx_sessions[[kind |-> "Response", port |-> 5]] = 1

\* ------------------------------------------------------------------- C37

C37_SendStep ==
    pc.op = "send" =>
        /\ pc.at # "push" => udpard_tx_' = udpard_tx_
        /\ pc.at = "push" =>
              /\ \A m \in Media \ {pc.m} : udpard_tx_'[m] = udpard_tx_[m]
              /\ ev'.res # "ok" => (udpard_tx_' = udpard_tx_ /\ pc'.at = "handle")
        /\ (pc.at = "handle" /\ transient_error_handler_ # "swallow") =>
              /\ pc'.at = "return"
              /\ pc'.fail # None
              /\ \A m \in Media : m < pc.m => transferQueuedLast(m, pc.item)
        /\ (pc.at = "handle" /\ transient_error_handler_ = "swallow") =>
              /\ pc'.fail = None
              /\ IF pc.m + 1 \in Media
                 THEN pc'.at = "tx_socket" /\ pc'.m = pc.m + 1
                 ELSE pc'.at = "return"

C38_NoSocketStep ==
    (pc.op = "run" /\ pc.loop = "runMediaTransmit") =>
        /\ \A m \in Media : ~tx_socket_ptr_'[m] =>
              /\ udpard_tx_'[m] = udpard_tx_[m]
              /\ ~(ev'.ev \in {"send", "expire"} /\ ev'.m = m /\ ev' # ev)
        /\ (pc.at = "tx_socket" /\ ~tx_socket_ptr_'[pc.m]) =>
              /\ pc'.at = "handle"
              /\ pc'.report = "MediaMakeTxSocket"
              /\ pc'.m = pc.m
        /\ (pc.at = "handle" /\ pc.report = "MediaMakeTxSocket"
                /\ transient_error_handler_ = "swallow") =>
              /\ udpard_tx_' = udpard_tx_
              /\ pc'.op = "run"
              /\ pc'.fail = None
              /\ IF pc.m + 1 \in Media
                 THEN pc'.loop = "runMediaTransmit" /\ pc'.at = "tx_socket" /\ pc'.m = pc.m + 1
                 ELSE pc'.loop = "runMediaReceive"

C39_DrainStep ==
    (pc.op = "run" /\ pc.loop = "runMediaTransmit") =>
        /\ pc.at = "drain" =>
              \/ /\ Len(udpard_tx_'[pc.m]) < Len(udpard_tx_[pc.m])
                 /\ pc'.m = pc.m
                 /\ pc'.at \in {"drain", "handle"}
              \/ /\ udpard_tx_' = udpard_tx_
                 /\ ~(pc'.loop = "runMediaTransmit" /\ pc'.m = pc.m)
                 /\ \/ udpard_tx_[pc.m] = <<>>
                    \/ ev'.ev = "send" /\ ev'.res = "not_accepted"
        /\ (pc.at = "drain" /\ ev'.ev = "send") =>
              /\ udpard_tx_[pc.m] # <<>>
              /\ tx_socket_ptr_[pc.m]
        /\ (pc.at = "handle" /\ pc.report = "MediaTxSocketSend") =>
              /\ udpard_tx_' = udpard_tx_
              /\ \/ pc'.at = "drain" /\ pc'.m = pc.m
                 \/ pc'.at = "return" /\ pc'.fail # None
        /\ pc'.loop = "runMediaReceive" =>
              \A m \in Media : tx_socket_ptr_'[m] =>
                  \/ udpard_tx_'[m] = <<>>
                  \/ blocked'[m] = Head(udpard_tx_'[m])

\* C39: every iteration of a medium's TX drain either shortens that medium's
\* queue and stays with the medium, or leaves the queue as it is and leaves
\* the medium (the queue is empty, or the socket did not accept the head item);
\* the socket is only offered an item of a non-empty queue, and consulting the
\* handler after a failed send changes no queue. So the drain ends after at
\* most as many sends as items were queued. When the transmit pass of a run
\* ends without failure, every medium that has a TX socket has an empty queue
\* or has at its head the item its last send did not accept.
C39_DrainTerminates == [][C39_DrainStep]_vars

\* A transmit pass has ended without failure: the first medium's queue is
\* empty, the second medium's socket has not accepted the item at its head.
C39_Witness ==
    /\ pc.op = "run"
    /\ pc.loop = "runMediaReceive"
    /\ tx_socket_ptr_[0]
    /\ tx_socket_ptr_[1]
    /\ udpard_tx_[0] = <<>>
    /\ udpard_tx_[1] # <<>>
    /\ blocked[1] = Head(udpard_tx_[1])
    /\ blocked[0] = NoItem

\* ------------------------------------------------------------------- C33

\* What the step of a factory that makes the session object returns and changes.
C33_MakeStep ==
    /\ pc.at = "make" =>
          /\ ev'.ev = "make"
          /\ ev'.res \in {None, "ArgumentError", "MemoryError"}
          /\ (ev'.session.port > 8191) <=> (ev'.res = "ArgumentError")
          /\ pc'.at = "return"
          /\ pc'.fail = ev'.res
          /\ tx_session_' = (tx_session_ \/ ev'.res = None)
          /\ ev'.res # None => UNCHANGED transport
    /\ pc.at = "session_make" =>
          LET max == IF pc.session.kind = "Message" THEN 8191 ELSE 511 IN
          /\ ev'.ev = "rxSessionMake"
          /\ ev'.res \in {"session", "ArgumentError", "MemoryError"}
          /\ (pc.session.port > max) <=> (ev'.res = "ArgumentError")
          /\ pc'.at = "return"
          /\ pc'.fail = IF ev'.res = "session" THEN None ELSE ev'.res
          /\ ev'.res # "session" =>
                /\ rx_sessions' = rx_sessions
                /\ \A kind \in Kinds :
                      IF kind = pc.session.kind
                      THEN nodesOf(kind)' = nodesOf(kind) \ {pc.session.port}
                      ELSE nodesOf(kind)' = nodesOf(kind)
                /\ UNCHANGED <<node_id_, svc_rx_sockets_endpoint_, transient_error_handler_,
                               tx_socket_ptr_, rx_socket_ptr_, udpard_tx_, tx_session_,
                               send_timeout_>>

freeIds == (1 .. Max) \ selector.taken

\* How many loop tests a search can still make at most.
C34_Rank(s) ==
    CASE s.at = "start" -> 2 * Max + 4
      [] s.at = "up" -> 2 * Max + 3 - s.candidate
      [] s.at = "down" -> s.candidate + 1
      [] OTHER -> 0

C34_SearchStep ==
    /\ C34_Rank(selector') \in 0 .. 2 * Max + 4
    /\ C34_Rank(selector') < C34_Rank(selector)
    /\ selector'.at = "done" =>
          /\ selector'.result \in freeIds \cup {ValueInvalid}
          /\ selector'.result = ValueInvalid => freeIds = {}
          /\ selector'.taken = selector.taken

\* C34: every step of findFreeNodeID lowers a bounded natural-number rank, so
\* the search ends; what it returns is an id of 1..Max that is not taken, or
\* the invalid id, and the invalid id only when every id of 1..Max is taken.
C34_FindsFreeOrInvalid == [][C34_SearchStep]_vars

\* With the preferred id 2 and the ids 2..Max taken, the search has gone up to
\* Max, come down and returned 1.
C34_Witness ==
    /\ selector.at = "done"
    /\ selector.preferred_node_id = 2
    /\ selector.taken = 2 .. Max
    /\ selector.result = 1

\* ------------------------------------------------------------------- C35

\* C35: findFreeNodeID returns the smallest free id at or above the preferred
\* id when there is one, otherwise the largest free id below it, otherwise the
\* invalid id; a preferred id that is not unicast counts as Max.
C35_PreferenceOrder ==
    selector.at = "done" =>
        LET first == IF isUnicast(selector.preferred_node_id)
                     THEN selector.preferred_node_id ELSE Max
            above == {id \in freeIds : id >= first}
            below == {id \in freeIds : id < first}
        IN  selector.result =
                IF above # {} THEN CHOOSE id \in above : \A other \in above : id <= other
                ELSE IF below # {} THEN CHOOSE id \in below : \A other \in below : id >= other
                ELSE ValueInvalid

\* With the broadcast id preferred and Max taken, the largest free id, Max - 2,
\* has been returned although the lower id 1 is free as well.
C35_Witness ==
    /\ selector.at = "done"
    /\ selector.preferred_node_id = 0
    /\ selector.taken = {Max, Max - 1}
    /\ selector.result = Max - 2

\* ------------------------------------------------------------------- C36

\* What a call on the registry or a register does, told by the keys of the names.
C36_RegistryStep ==
    LET call == registry_call'
        key == hash(call.name)
        first == registers_tree_[key]
    IN  /\ call.op \in {"append", "route"} =>
              /\ call.result = (first = nullptr)
              /\ IF first = nullptr
                 THEN registers_tree_' = [registers_tree_ EXCEPT ![key] = call.reg]
                 ELSE /\ registers_tree_' = registers_tree_
                      /\ \A k \in Keys : registers_tree_'[k] # call.reg
                      /\ registers'[first] = registers[first]
        /\ call.op = "get" =>
              /\ call.reg = first
              /\ call.result = IF first = nullptr THEN "nullopt" ELSE registers[first].value
              /\ UNCHANGED <<registers, registers_tree_>>
        /\ call.op = "set" =>
              /\ call.reg = first
              /\ call.result = IF first = nullptr THEN "Existence" ELSE "nullopt"
              /\ \A reg \in Registers \ {first} : registers'[reg] = registers[reg]
              /\ UNCHANGED registers_tree_
        /\ call.op = "destroy" =>
              \A k \in Keys :
                  registers_tree_'[k] =
                      IF registers_tree_[k] = call.reg THEN nullptr ELSE registers_tree_[k]
        /\ \A k \in Keys : registers_tree_'[k] # nullptr =>
              /\ registers'[registers_tree_'[k]].alive
              /\ hash(registers'[registers_tree_'[k]].name) = k

\* C36: append (also within route) links the register and returns true exactly
\* when no register is linked under the key of its name; otherwise it returns
\* false, the register stays unlinked and the tree and the register linked first
\* are as before. get and set go to the register linked under the key of the
\* name: get yields nothing and set yields SetError::Existence when there is
\* none, and set changes no other register. Destroying a register takes it out
\* of the tree, so every linked register is alive and linked under its own key.
C36_AppendOncePerKey == [][C36_RegistryStep]_vars

\* A second register of the same name has been refused and stays unlinked; get
\* by that name has yielded the value of the register linked first.
C36_Witness ==
    /\ registry_call.op = "get"
    /\ registry_call.name = <<1>>
    /\ registry_call.reg = 1
    /\ registry_call.result = 1
    /\ registers[1] = [alive |-> TRUE, name |-> <<1>>, value |-> 1]
    /\ registers[2] = [alive |-> TRUE, name |-> <<1>>, value |-> 0]
    /\ registers_tree_[1] = 1
    /\ \A k \in Keys : registers_tree_[k] # 2

\* ------------------------------------------------------------------- C31

\* The handles that own the callback: alive, with an executor and the id.
owners(id) ==
    {handle \in Handles : /\ handles[handle].alive
                          /\ handles[handle].executor_ # nullptr
                          /\ handles[handle].id_ = id}

C31_HandleStep ==
    /\ \A id \in CallbackIds :
          /\ Cardinality(owners(id)') <= 1
          /\ callbacks'[id].state = "none" => (owners(id)' = {} /\ removals'[id] = 0)
          /\ callbacks'[id].state = "live" => (owners(id)' # {} /\ removals'[id] = 0)
          /\ callbacks'[id].state = "removed" => (owners(id)' = {} /\ removals'[id] = 1)
    /\ removals' # removals =>
          \E handle \in Handles, id \in CallbackIds :
              /\ id = handles[handle].id_
              /\ handle \in owners(id)
              /\ removals' = [removals EXCEPT ![id] = @ + 1]
              /\ handle \notin owners(id)'
    /\ (api'.op = "register" /\ ~api'.res) =>
          UNCHANGED <<handles, removals, callbacks>>

\* C31: a registered callback is owned by exactly one handle until it is
\* removed and by none afterwards; removeCallbackById is called for it once,
\* by the handle that owns it, when that handle is reset, destroyed or assigned
\* to, and never by a handle without executor (moved from, reset or made by
\* default). A registration that fails leaves no handle and no removal.
C31_OneOwnerOneRemoval == [][C31_HandleStep]_vars

\* The callback of id 1 has been moved from one handle to another and removed
\* once: both handles hold the id, neither owns it any more.
C31_Witness ==
    /\ handles[1] = [alive |-> TRUE, id_ |-> 1, executor_ |-> nullptr]
    /\ handles[2] = [alive |-> TRUE, id_ |-> 1, executor_ |-> nullptr]
    /\ ~handles[3].alive
    /\ callbacks[1].state = "removed"
    /\ removals[1] = 1

====
